---- MODULE Spec2Model ----
(***************************************************************************)
(* Durak multiplayer server (src/server.js, the 2-6 player engine that     *)
(* starts at line 1289): one room, its players, and the intents that the   *)
(* socket handlers apply to it.                                            *)
(*                                                                         *)
(* The room object of the server is the record held by the variable room;  *)
(* every socket handler is an operator from a room to the room it leaves   *)
(* behind together with the way the handler ended (accepted, rejected at a *)
(* named return point, or raised), and one action applies it.              *)
(***************************************************************************)
EXTENDS Integers, Sequences, FiniteSets, TLC

(***************************************************************************)
(* Bounds of the model.  The server plays 9 ranks and hands of 6; the      *)
(* model plays the lowest ranks with small hands, in two configurations:   *)
(* a narrow one (NumRanks ranks, hands of HandSize cards, a table of       *)
(* TableSize pairs) that is played for MaxSettlements settled rounds, so   *)
(* that a whole game (deal, rounds, empty deck, elimination, end) is       *)
(* explored, and a wide one (WideRanks, WideHand, WideTable) played for    *)
(* WideSettlements rounds, where a table holds defended and undefended     *)
(* pairs next to each other and still has room.                            *)
(***************************************************************************)
NumRanks == 2

HandSize == 2

TableSize == 2

MaxSettlements == 2

WideRanks == 3

WideHand == 3

WideTable == 3

WideSettlements == 1

\* the short configuration: one rank, hands of one card, played to a
\* finish in which every hand is empty
ShortRanks == 1

ShortHand == 1

ShortTable == 2

ShortSettlements == 3

\* the short configuration played for one settled round, for clients that
\* disconnect and for the timer that fires
LeaveSettlements == 1

MaxSeats == 3

NumShuffles == 3

(***************************************************************************)
(* State.  room is the room object; crashed says that a handler raised     *)
(* (an uncaught exception ends the server process); last records the last  *)
(* intent that was not rejected and how it ended; discarded collects the   *)
(* cards that completeSuccessfulDefense removed from the table;            *)
(* settlements counts the settled rounds of the game; config is the        *)
(* configuration that is played; probe holds a pair of cards and what      *)
(* canDefend answered about them; window records, while a throw-in window  *)
(* is open, the defender who sent takeCards, the hand of that defender     *)
(* then, and the cards accepted into the throw-in pile since; votes        *)
(* records what each client has answered to the rematch question after    *)
(* the end of the game.                                                    *)
(***************************************************************************)
VARIABLES room, crashed, last, discarded, settlements, config, probe, window, votes

vars == <<room, crashed, last, discarded, settlements, config, probe, window, votes>>

Narrow ==
  [numRanks |-> NumRanks, handSize |-> HandSize, tableSize |-> TableSize,
   maxSettlements |-> MaxSettlements, seats |-> MaxSeats]

Wide ==
  [numRanks |-> WideRanks, handSize |-> WideHand, tableSize |-> WideTable,
   maxSettlements |-> WideSettlements, seats |-> MaxSeats]

Short ==
  [numRanks |-> ShortRanks, handSize |-> ShortHand, tableSize |-> ShortTable,
   maxSettlements |-> ShortSettlements, seats |-> MaxSeats]

Leaving ==
  [numRanks |-> ShortRanks, handSize |-> ShortHand, tableSize |-> ShortTable,
   maxSettlements |-> LeaveSettlements, seats |-> MaxSeats]

(***************************************************************************)
(* Game constants (src/server.js 1312-1320).                               *)
(***************************************************************************)
MIN_PLAYERS == 2

MAX_PLAYERS == 6

\* the hand size and the table size as the source declares them
DeclaredHandSize == 6

DeclaredTableSize == 6

INITIAL_HAND_SIZE == config.handSize

MAX_BATTLEFIELD_SIZE == config.tableSize

suits == <<"S", "H", "D", "C">>

AllRanks == <<"6", "7", "8", "9", "10", "J", "Q", "K", "A">>

ranks == SubSeq(AllRanks, 1, config.numRanks)

rankValues ==
  [r \in {"6", "7", "8", "9", "10", "J", "Q", "K", "A"} |->
     CASE r = "6" -> 6 [] r = "7" -> 7 [] r = "8" -> 8 [] r = "9" -> 9
       [] r = "10" -> 10 [] r = "J" -> 11 [] r = "Q" -> 12 [] r = "K" -> 13
       [] r = "A" -> 14]

\* the configuration of the source: nine ranks, hands of six, rooms of up
\* to MAX_PLAYERS seats; explored up to the start of the game
Full ==
  [numRanks |-> Len(AllRanks), handSize |-> DeclaredHandSize,
   tableSize |-> DeclaredTableSize, maxSettlements |-> 0, seats |-> MAX_PLAYERS]

(***************************************************************************)
(* JavaScript values that are not cards: undefined (an array read out of   *)
(* range, deck[0] of an empty deck) and null (an empty defense slot).      *)
(***************************************************************************)
Undefined == [suit |-> "undefined", rank |-> "undefined", value |-> 0, isTrump |-> FALSE]

Null == [suit |-> "null", rank |-> "null", value |-> 0, isTrump |-> FALSE]

NoPlayer == 0

Min(a, b) == IF a <= b THEN a ELSE b

Max(a, b) == IF a >= b THEN a ELSE b

\* Array.prototype.push
Push(s, x) == Append(s, x)

\* array[i] with a 0-based integer index: undefined outside 0..length-1
At(s, i) == IF i >= 0 /\ i < Len(s) THEN s[i + 1] ELSE Undefined

\* Array.prototype.splice(start, 1): a negative start counts from the end,
\* a start at or beyond the length removes nothing
Splice(s, start) ==
  LET from == IF start < 0 THEN Max(Len(s) + start, 0) ELSE Min(start, Len(s))
  IN  IF from >= Len(s) THEN s
      ELSE SubSeq(s, 1, from) \o SubSeq(s, from + 2, Len(s))

\* Array.prototype.pop: the deck is consumed from its end
PopCard(s) == s[Len(s)]

PopRest(s) == SubSeq(s, 1, Len(s) - 1)

Range(s) == {s[i] : i \in 1..Len(s)}

\* the index in players of the player with this id, 0 when there is none
\* (Array.prototype.find by id)
FindIndex(players, id) ==
  IF \E i \in 1..Len(players) : players[i].id = id
  THEN CHOOSE i \in 1..Len(players) :
         /\ players[i].id = id
         /\ \A j \in 1..(i - 1) : players[j].id # id
  ELSE 0

\* the hand of the player with this id
HandOf(r, id) == r.players[FindIndex(r.players, id)].hand

(***************************************************************************)
(* createDeck and shuffleDeck.  The deck is built suit by suit, rank by    *)
(* rank; Math.random may produce any permutation, of which the model       *)
(* explores createDeck(0) .. createDeck(NumShuffles - 1).                  *)
(***************************************************************************)
OrderedDeck ==
  [k \in 1..(Len(suits) * Len(ranks)) |->
     LET s == suits[((k - 1) \div Len(ranks)) + 1]
         r == ranks[((k - 1) % Len(ranks)) + 1]
     IN  [suit |-> s, rank |-> r, value |-> rankValues[r], isTrump |-> FALSE]]

\* one riffle: the two halves of the deck interleaved
Riffle(d) ==
  LET half == (Len(d) + 1) \div 2
  IN  [i \in 1..Len(d) |-> IF i % 2 = 1 THEN d[(i + 1) \div 2] ELSE d[half + (i \div 2)]]

RECURSIVE RiffleTimes(_, _)
RiffleTimes(d, k) == IF k = 0 THEN d ELSE RiffleTimes(Riffle(d), k - 1)

\* a cut: the first k cards go to the end
Cut(d, k) == SubSeq(d, (k % Len(d)) + 1, Len(d)) \o SubSeq(d, 1, k % Len(d))

\* shuffleDeck: seed stands for the outcome of Math.random
shuffleDeck(deck, seed) == Cut(RiffleTimes(deck, seed), seed)

createDeck(seed) == shuffleDeck(OrderedDeck, seed)

(***************************************************************************)
(* Seating and roles.                                                      *)
(***************************************************************************)
\* the index in players of the player seated at this position, 0 if none
SeatIndex(players, pos) ==
  IF \E i \in 1..Len(players) : players[i].position = pos
  THEN CHOOSE i \in 1..Len(players) :
         /\ players[i].position = pos
         /\ \A j \in 1..(i - 1) : players[j].position # pos
  ELSE 0

RECURSIVE ScanNextActive(_, _, _)
ScanNextActive(players, nextPosition, attempts) ==
  IF attempts >= Len(players) THEN 0
  ELSE LET i == SeatIndex(players, nextPosition)
       IN  IF i # 0 /\ players[i].isActive /\ ~players[i].hasWon
           THEN i
           ELSE ScanNextActive(players, (nextPosition + 1) % Len(players), attempts + 1)

\* getNextActivePlayer: the index in room.players of the next active player
\* clockwise after afterPlayerId, 0 for null
getNextActivePlayer(r, afterPlayerId) ==
  LET a == FindIndex(r.players, afterPlayerId)
  IN  IF a = 0 THEN 0
      ELSE ScanNextActive(r.players, (r.players[a].position + 1) % Len(r.players), 0)

\* getAttackers: the players who can attack, in the order of room.players
getAttackers(r) ==
  IF r.currentDefenderId = NoPlayer THEN <<>>
  ELSE SelectSeq(r.players,
         LAMBDA p : /\ p.isActive
                    /\ ~p.hasWon
                    /\ p.id # r.currentDefenderId
                    /\ Len(p.hand) > 0)

\* getAttackers(room).filter(p => p.id !== room.initialAttackerId).map(p => p.id)
AdditionalAttackerIds(r) ==
  LET others == SelectSeq(getAttackers(r), LAMBDA p : p.id # r.initialAttackerId)
  IN  [i \in 1..Len(others) |-> others[i].id]

\* updatePlayerOrder: positions are distinct, so sorting by position is
\* picking the seats in increasing position
RECURSIVE OrderFrom(_, _)
OrderFrom(players, pos) ==
  IF pos >= Len(players) THEN <<>>
  ELSE LET i == SeatIndex(players, pos)
       IN  (IF i # 0 /\ players[i].isActive /\ ~players[i].hasWon
            THEN <<players[i].id>> ELSE <<>>) \o OrderFrom(players, pos + 1)

updatePlayerOrder(r) == [r EXCEPT !.playerOrder = OrderFrom(r.players, 0)]

(***************************************************************************)
(* Drawing, elimination, the defend relation, the end of the game.         *)
(***************************************************************************)
\* the card that drawCardsForPlayer pops, with its trump mark recomputed
DrawnCard(r) == [PopCard(r.deck) EXCEPT !.isTrump = (PopCard(r.deck).suit = r.trumpSuit)]

\* drawCardsForPlayer with the loop test hand.length <= INITIAL_HAND_SIZE:
\* one card too many
RECURSIVE drawCardsForPlayerOneMore(_, _)
drawCardsForPlayerOneMore(r, i) ==
  IF Len(r.players[i].hand) <= INITIAL_HAND_SIZE /\ Len(r.deck) > 0
  THEN drawCardsForPlayerOneMore(
         [r EXCEPT !.deck = PopRest(r.deck),
                   !.players[i].hand = Push(@, DrawnCard(r))], i)
  ELSE r

\* drawCardsForPlayer, for the player at index i of room.players
RECURSIVE drawCardsForPlayer(_, _)
drawCardsForPlayer(r, i) ==
  IF Len(r.players[i].hand) < INITIAL_HAND_SIZE /\ Len(r.deck) > 0
  THEN drawCardsForPlayer(
         [r EXCEPT !.deck = PopRest(r.deck),
                   !.players[i].hand = Push(@, DrawnCard(r))], i)
  ELSE r

\* checkForWinner: the player is marked and entered in the winners list
MarkWinner(r, i) ==
  [r EXCEPT !.players[i].hasWon = TRUE,
            !.players[i].isActive = FALSE,
            !.winners = Push(@, [id |-> r.players[i].id,
                                 name |-> r.players[i].name,
                                 position |-> Len(r.winners) + 1])]

\* checkForWinner: the role of the player who won goes to the next active
\* player nxt (an index in room.players, 0 for null)
SetDefenderIfAny(r, nxt) ==
  IF nxt # 0 THEN [r EXCEPT !.currentDefenderId = r.players[nxt].id] ELSE r

SetAttackerIfAny(r, nxt) ==
  IF nxt # 0 THEN [r EXCEPT !.initialAttackerId = r.players[nxt].id] ELSE r

ReassignRole(r, pid) ==
  IF pid = r.currentDefenderId THEN SetDefenderIfAny(r, getNextActivePlayer(r, pid))
  ELSE IF pid = r.initialAttackerId THEN SetAttackerIfAny(r, getNextActivePlayer(r, pid))
  ELSE r

\* checkForWinner, for the player at index i of room.players
checkForWinner(r, i) ==
  IF Len(r.players[i].hand) = 0 /\ Len(r.deck) = 0
  THEN updatePlayerOrder(ReassignRole(MarkWinner(r, i), r.players[i].id))
  ELSE r

\* canDefend with the trump rule cut short: a trump beats every card
canDefendAnyTrump(defenseCard, attackCard) ==
  IF defenseCard.isTrump THEN TRUE
  ELSE IF defenseCard.suit = attackCard.suit /\ defenseCard.value > attackCard.value
  THEN TRUE
  ELSE FALSE

\* canDefend
canDefend(defenseCard, attackCard) ==
  IF defenseCard.isTrump /\ ~attackCard.isTrump THEN TRUE
  ELSE IF defenseCard.suit = attackCard.suit /\ defenseCard.value > attackCard.value
  THEN TRUE
  ELSE FALSE

\* checkGameEnd: the active players who still hold cards
PlayersWithCards(r) ==
  SelectSeq(r.players, LAMBDA p : p.isActive /\ ~p.hasWon /\ Len(p.hand) > 0)

\* checkGameEnd: the message sent to the room when the game ends, 'gameOver'
\* with the durak or 'gameDraw', both with room.winners
NoDurak == [id |-> NoPlayer, name |-> NoPlayer]

gameEndEvent(r) ==
  IF Len(PlayersWithCards(r)) = 1
  THEN [event |-> "gameOver",
        durak |-> [id |-> PlayersWithCards(r)[1].id, name |-> PlayersWithCards(r)[1].name],
        winners |-> r.winners]
  ELSE [event |-> "gameDraw", durak |-> NoDurak, winners |-> r.winners]

\* checkGameEnd with the test playersWithCards.length <= 2: the game ends
\* while two players still hold cards
checkGameEndTwoLeft(r) ==
  IF Len(r.deck) = 0 /\ Len(PlayersWithCards(r)) <= 2
  THEN [r EXCEPT !.gameState = "finished"]
  ELSE r

\* checkGameEnd
checkGameEnd(r) ==
  IF Len(r.deck) = 0 /\ Len(PlayersWithCards(r)) <= 1
  THEN [r EXCEPT !.gameState = "finished"]
  ELSE r

(***************************************************************************)
(* createRoom and startGame.  The room record leaves out the fields that   *)
(* hold names and clock readings (code, throwInDeadline, turnTimer,        *)
(* lastAction, createdAt).                                                 *)
(***************************************************************************)
NewPlayer(id, position) ==
  [id |-> id, name |-> id, ready |-> FALSE, hand |-> <<>>, connected |-> TRUE,
   position |-> position, isActive |-> TRUE, hasWon |-> FALSE]

createRoom(creatorId, maxPlayers) ==
  [maxPlayers |-> Min(Max(maxPlayers, MIN_PLAYERS), MAX_PLAYERS),
   players |-> <<NewPlayer(creatorId, 0)>>,
   gameState |-> "waiting",
   deck |-> <<>>,
   battlefield |-> <<>>,
   trumpCard |-> Null,
   trumpSuit |-> "",
   initialAttackerId |-> NoPlayer,
   currentDefenderId |-> NoPlayer,
   additionalAttackers |-> <<>>,
   gamePhase |-> "waiting",
   throwInTimer |-> "none",
   validThrowInRanks |-> {},
   throwInCards |-> <<>>,
   maxThrowInTotal |-> 6,
   winners |-> <<>>,
   playerOrder |-> <<>>]

\* startGame, "Initialize game" and "Set player positions"
ResetForGame(r, seed) ==
  [r EXCEPT !.deck = createDeck(seed),
            !.battlefield = <<>>,
            !.throwInCards = <<>>,
            !.gameState = "playing",
            !.gamePhase = "attacking",
            !.winners = <<>>,
            !.players = [i \in 1..Len(r.players) |->
                           [r.players[i] EXCEPT !.position = i - 1,
                                                !.hand = <<>>,
                                                !.isActive = TRUE,
                                                !.hasWon = FALSE]]]

\* the dealing loop of startGame: INITIAL_HAND_SIZE rounds, one card per
\* player per round while the deck has cards; t counts the visits
RECURSIVE DealInitialCards(_, _)
DealInitialCards(r, t) ==
  IF t >= INITIAL_HAND_SIZE * Len(r.players) THEN r
  ELSE IF Len(r.deck) > 0
  THEN DealInitialCards(
         [r EXCEPT !.players[(t % Len(r.players)) + 1].hand = Push(@, PopCard(r.deck)),
                   !.deck = PopRest(r.deck)], t + 1)
  ELSE DealInitialCards(r, t + 1)

MarkTrump(cards, trumpSuit) ==
  [k \in 1..Len(cards) |-> [cards[k] EXCEPT !.isTrump = (cards[k].suit = trumpSuit)]]

\* SetTrump that takes the card at the consumption end of the deck
SetTrumpTop(r) ==
  [r EXCEPT !.trumpSuit = r.deck[Len(r.deck)].suit,
            !.deck = MarkTrump(r.deck, r.deck[Len(r.deck)].suit),
            !.trumpCard = [r.deck[Len(r.deck)] EXCEPT !.isTrump = TRUE],
            !.players = [i \in 1..Len(r.players) |->
                           [r.players[i] EXCEPT !.hand = MarkTrump(@, r.deck[Len(r.deck)].suit)]]]

\* startGame, "Set trump card" and "Mark trump cards", for a deck with cards
SetTrump(r) ==
  [r EXCEPT !.trumpSuit = r.deck[1].suit,
            !.deck = MarkTrump(r.deck, r.deck[1].suit),
            !.trumpCard = [r.deck[1] EXCEPT !.isTrump = TRUE],
            !.players = [i \in 1..Len(r.players) |->
                           [r.players[i] EXCEPT !.hand = MarkTrump(@, r.deck[1].suit)]]]

\* the trump cards held in the hands
TrumpsInHands(players) ==
  {c \in UNION {Range(players[i].hand) : i \in 1..Len(players)} : c.isTrump}

LowestTrump(players) ==
  CHOOSE c \in TrumpsInHands(players) : \A d \in TrumpsInHands(players) : c.value <= d.value

\* startGame, "Determine first attacker": the index in players of the holder
\* of the lowest trump, or the random pick when no hand has a trump
FirstAttacker(players, pick) ==
  IF TrumpsInHands(players) = {} THEN pick
  ELSE CHOOSE i \in 1..Len(players) : LowestTrump(players) \in Range(players[i].hand)

\* startGame, "Set initial attacker and defender"
SetDefenderAfter(r) ==
  [r EXCEPT !.currentDefenderId =
              r.players[getNextActivePlayer(r, r.initialAttackerId)].id]

SetAdditionalAttackers(r) == [r EXCEPT !.additionalAttackers = AdditionalAttackerIds(r)]

SetRoles(r, firstAttacker) ==
  updatePlayerOrder(SetAdditionalAttackers(SetDefenderAfter(
    [r EXCEPT !.initialAttackerId = r.players[firstAttacker].id])))

\* startGame after the deal: reading the suit of an undefined trump card raises
StartDealt(r, pick) ==
  IF Len(r.deck) = 0
  THEN [room |-> [r EXCEPT !.trumpCard = Undefined], result |-> "raised"]
  ELSE [room |-> SetRoles(SetTrump(r), FirstAttacker(SetTrump(r).players, pick)),
        result |-> "true"]

\* startGame: seed stands for the outcome of the shuffle, pick for the
\* random first attacker.  The result says whether the function returned
\* true, returned false, or raised.
startGame(r, seed, pick) ==
  IF Len(r.players) < MIN_PLAYERS THEN [room |-> r, result |-> "false"]
  ELSE StartDealt(DealInitialCards(ResetForGame(r, seed), 0), pick)

(***************************************************************************)
(* getSafeGameState: the snapshot of the room sent to playerId.            *)
(***************************************************************************)
NullHand == <<Null>>

\* SafePlayer without the test on the viewer: every hand is sent
SafePlayerWithHand(r, p, playerId) ==
  [id |-> p.id,
   name |-> p.name,
   ready |-> p.ready,
   position |-> p.position,
   cardCount |-> Len(p.hand),
   hand |-> p.hand,
   connected |-> p.connected,
   isActive |-> p.isActive,
   hasWon |-> p.hasWon,
   isInitialAttacker |-> (p.id = r.initialAttackerId),
   isDefender |-> (p.id = r.currentDefenderId),
   canAttack |-> (p.id \in Range(r.additionalAttackers) \/ p.id = r.initialAttackerId)]

SafePlayer(r, p, playerId) ==
  [id |-> p.id,
   name |-> p.name,
   ready |-> p.ready,
   position |-> p.position,
   cardCount |-> Len(p.hand),
   hand |-> IF p.id = playerId THEN p.hand ELSE NullHand,
   connected |-> p.connected,
   isActive |-> p.isActive,
   hasWon |-> p.hasWon,
   isInitialAttacker |-> (p.id = r.initialAttackerId),
   isDefender |-> (p.id = r.currentDefenderId),
   canAttack |-> (p.id \in Range(r.additionalAttackers) \/ p.id = r.initialAttackerId)]

getSafeGameState(r, playerId) ==
  [maxPlayers |-> r.maxPlayers,
   gameState |-> r.gameState,
   gamePhase |-> r.gamePhase,
   battlefield |-> r.battlefield,
   throwInCards |-> r.throwInCards,
   deckCount |-> Len(r.deck),
   trumpCard |-> r.trumpCard,
   trumpSuit |-> r.trumpSuit,
   initialAttackerId |-> r.initialAttackerId,
   currentDefenderId |-> r.currentDefenderId,
   additionalAttackers |-> r.additionalAttackers,
   validThrowInRanks |-> r.validThrowInRanks,
   winners |-> r.winners,
   playerOrder |-> r.playerOrder,
   players |-> [i \in 1..Len(r.players) |-> SafePlayer(r, r.players[i], playerId)]]

(***************************************************************************)
(* Settlements.                                                            *)
(***************************************************************************)
\* the cards of the battlefield in the order completeTakeCards pushes them
RECURSIVE BattlefieldCards(_)
BattlefieldCards(bf) ==
  IF bf = <<>> THEN <<>>
  ELSE <<bf[1].attack>> \o (IF bf[1].defense # Null THEN <<bf[1].defense>> ELSE <<>>)
         \o BattlefieldCards(Tail(bf))

ThrowInPile(tc) == [k \in 1..Len(tc) |-> tc[k].card]

\* the draw for the initial attacker, when there is one
DrawForInitialAttacker(r) ==
  IF FindIndex(r.players, r.initialAttackerId) # 0
  THEN drawCardsForPlayer(r, FindIndex(r.players, r.initialAttackerId))
  ELSE r

\* room.players.forEach(player => { if (... active, not won, not excluded) draw })
DrawsHere(r, p, skipDefender) ==
  /\ p.id # r.initialAttackerId
  /\ (skipDefender => p.id # r.currentDefenderId)
  /\ p.isActive
  /\ ~p.hasWon

RECURSIVE DrawForOthers(_, _, _)
DrawForOthers(r, i, skipDefender) ==
  IF i > Len(r.players) THEN r
  ELSE IF DrawsHere(r, r.players[i], skipDefender)
  THEN DrawForOthers(drawCardsForPlayer(r, i), i + 1, skipDefender)
  ELSE DrawForOthers(r, i + 1, skipDefender)

\* completeTakeCards: the defender takes the battlefield and the throw-in pile
DefenderTakes(r) ==
  [r EXCEPT !.players[FindIndex(r.players, r.currentDefenderId)].hand =
              @ \o BattlefieldCards(r.battlefield) \o ThrowInPile(r.throwInCards),
            !.battlefield = <<>>,
            !.throwInCards = <<>>,
            !.validThrowInRanks = {}]

SetPhase(r, phase) == [r EXCEPT !.gamePhase = phase]

\* completeTakeCards with the two refills swapped: the other attackers
\* draw before the initial attacker
completeTakeCardsOthersFirst(r) ==
  checkGameEnd(SetPhase(DrawForInitialAttacker(DrawForOthers(DefenderTakes(r), 1, TRUE)),
                        "attacking"))

\* completeTakeCards
completeTakeCards(r) ==
  checkGameEnd(SetPhase(DrawForOthers(DrawForInitialAttacker(DefenderTakes(r)), 1, TRUE),
                        "attacking"))

\* completeSuccessfulDefense: the next defender (an index, 0 for null) defends
SetNextDefender(r, nextDefender) ==
  IF nextDefender # 0
  THEN SetAdditionalAttackers([r EXCEPT !.currentDefenderId = r.players[nextDefender].id])
  ELSE r

\* the rotation with the next defender looked up after the attacker of the
\* round that ends instead of after the new attacker
DefenderBecomesAttackerStale(r, d) ==
  IF d # 0
  THEN SetNextDefender([r EXCEPT !.initialAttackerId = r.players[d].id],
                       getNextActivePlayer(r, r.initialAttackerId))
  ELSE r

\* completeSuccessfulDefense: the defender at index d becomes the attacker
DefenderBecomesAttacker(r, d) ==
  IF d # 0
  THEN SetNextDefender([r EXCEPT !.initialAttackerId = r.players[d].id],
                       getNextActivePlayer(r, r.players[d].id))
  ELSE r

RotateRoles(r) == DefenderBecomesAttacker(r, FindIndex(r.players, r.currentDefenderId))

ClearTable(r) == [r EXCEPT !.battlefield = <<>>, !.throwInCards = <<>>]

\* completeSuccessfulDefense
completeSuccessfulDefense(r) ==
  checkGameEnd(SetPhase(RotateRoles(DrawForOthers(DrawForInitialAttacker(ClearTable(r)),
                                                  1, FALSE)),
                        "attacking"))

(***************************************************************************)
(* Socket handlers.  Each returns the room it leaves behind, how it ended  *)
(* ("accepted", "rejected" or "raised") and at which point of the code.    *)
(***************************************************************************)
Accepted(r, branch) == [room |-> r, result |-> "accepted", reason |-> branch]

Rejected(r, point) == [room |-> r, result |-> "rejected", reason |-> point]

Raised(r, point) == [room |-> r, result |-> "raised", reason |-> point]

\* the ranks of the attack and defense cards of the battlefield
BattlefieldRanks(bf) ==
  {bf[k].attack.rank : k \in 1..Len(bf)}
    \cup {bf[k].defense.rank : k \in {j \in 1..Len(bf) : bf[j].defense # Null}}

\* reading pair.attack.rank raises when a pair's attack is undefined
HasUndefinedAttack(bf) == \E k \in 1..Len(bf) : bf[k].attack = Undefined

\* the index of the first pair without a defense, 0 when every pair has one
FirstUndefended(bf) ==
  IF \E k \in 1..Len(bf) : bf[k].defense = Null
  THEN CHOOSE k \in 1..Len(bf) :
         /\ bf[k].defense = Null
         /\ \A j \in 1..(k - 1) : bf[j].defense # Null
  ELSE 0

AllDefended(bf) == \A k \in 1..Len(bf) : bf[k].defense # Null

\* the limit of the attacks without the size of the table
MaxAttacksByHand(r) ==
  Len(r.players[FindIndex(r.players, r.currentDefenderId)].hand)

\* Math.min(MAX_BATTLEFIELD_SIZE, defender.hand.length)
MaxAttacks(r) ==
  Min(MAX_BATTLEFIELD_SIZE, Len(r.players[FindIndex(r.players, r.currentDefenderId)].hand))

\* the attack card played without the change of the phase
PlayAttackCardKeepPhase(r, i, cardIndex) ==
  [r EXCEPT !.battlefield = Push(@, [attack |-> At(r.players[i].hand, cardIndex),
                                     defense |-> Null,
                                     attackerId |-> r.players[i].id]),
            !.players[i].hand = Splice(@, cardIndex)]

\* playCard, "Play attack card"
PlayAttackCard(r, i, cardIndex) ==
  [r EXCEPT !.battlefield = Push(@, [attack |-> At(r.players[i].hand, cardIndex),
                                     defense |-> Null,
                                     attackerId |-> r.players[i].id]),
            !.players[i].hand = Splice(@, cardIndex),
            !.gamePhase = "defending"]

\* the attack branch without the test of the rank
playCardAttackAnyRank(r, i, cardIndex, card) ==
  IF Len(r.battlefield) >= MaxAttacks(r) THEN Rejected(r, "attackLimit")
  ELSE IF Len(r.battlefield) > 0 /\ (HasUndefinedAttack(r.battlefield) \/ card = Undefined)
  THEN Raised(r, "attackRank")
  ELSE Accepted(checkForWinner(PlayAttackCard(r, i, cardIndex), i), "attack")

\* the attack branch of playCard, for the card at cardIndex of the hand
playCardAttack(r, i, cardIndex, card) ==
  IF Len(r.battlefield) >= MaxAttacks(r) THEN Rejected(r, "attackLimit")
  ELSE IF Len(r.battlefield) > 0 /\ (HasUndefinedAttack(r.battlefield) \/ card = Undefined)
  THEN Raised(r, "attackRank")
  ELSE IF Len(r.battlefield) > 0 /\ card.rank \notin BattlefieldRanks(r.battlefield)
  THEN Rejected(r, "attackRank")
  ELSE Accepted(checkForWinner(PlayAttackCard(r, i, cardIndex), i), "attack")

\* playCard, the defense card goes on the pair at index u of the battlefield
PlayDefenseCard(r, i, cardIndex, u) ==
  [r EXCEPT !.battlefield[u].defense = At(r.players[i].hand, cardIndex),
            !.players[i].hand = Splice(@, cardIndex)]

\* the phase set back to attacking after every defense
AttackAgainAlways(r) == SetPhase(r, "attacking")

\* playCard, "Check if all attacks are defended"
AttackAgainIfAllDefended(r) ==
  IF AllDefended(r.battlefield) THEN SetPhase(r, "attacking") ELSE r

\* the defense branch of playCard, against the pair at index u (0: none)
playCardDefense(r, i, cardIndex, card, u) ==
  IF u = 0 THEN Rejected(r, "noUndefended")
  ELSE IF card = Undefined \/ r.battlefield[u].attack = Undefined
  THEN Raised(r, "canDefend")
  ELSE IF canDefend(card, r.battlefield[u].attack)
  THEN Accepted(checkForWinner(
                  AttackAgainIfAllDefended(PlayDefenseCard(r, i, cardIndex, u)), i),
                "defend")
  ELSE Rejected(r, "cannotDefend")

\* playCard, "Add card to throw-in pile"
PlayThrowInCard(r, i, cardIndex) ==
  [r EXCEPT !.throwInCards = Push(@, [card |-> At(r.players[i].hand, cardIndex),
                                      playerId |-> r.players[i].id]),
            !.players[i].hand = Splice(@, cardIndex)]

\* the throw-in branch with the limit compared by > where the code has >=
playCardThrowInLoose(r, i, cardIndex, card) ==
  IF card = Undefined THEN Raised(r, "throwInRank")
  ELSE IF card.rank \notin r.validThrowInRanks THEN Rejected(r, "throwInRank")
  ELSE IF Len(r.battlefield) + Len(r.throwInCards) > r.maxThrowInTotal
  THEN Rejected(r, "throwInLimit")
  ELSE Accepted(checkForWinner(PlayThrowInCard(r, i, cardIndex), i), "throwIn")

\* the throw-in branch of playCard
playCardThrowIn(r, i, cardIndex, card) ==
  IF card = Undefined THEN Raised(r, "throwInRank")
  ELSE IF card.rank \notin r.validThrowInRanks THEN Rejected(r, "throwInRank")
  ELSE IF Len(r.battlefield) + Len(r.throwInCards) >= r.maxThrowInTotal
  THEN Rejected(r, "throwInLimit")
  ELSE Accepted(checkForWinner(PlayThrowInCard(r, i, cardIndex), i), "throwIn")

\* room.initialAttackerId === socket.id || room.additionalAttackers.includes(socket.id)
MayAttack(r, socketId) ==
  r.initialAttackerId = socketId \/ socketId \in Range(r.additionalAttackers)

\* playCard once the player at index i and the card index passed the checks
playCardBranch(r, socketId, i, cardIndex) ==
  IF MayAttack(r, socketId) /\ r.gamePhase = "attacking"
  THEN playCardAttack(r, i, cardIndex, At(r.players[i].hand, cardIndex))
  ELSE IF r.currentDefenderId = socketId /\ r.gamePhase = "defending"
  THEN playCardDefense(r, i, cardIndex, At(r.players[i].hand, cardIndex),
                       FirstUndefended(r.battlefield))
  ELSE IF MayAttack(r, socketId) /\ r.gamePhase = "throwIn"
  THEN playCardThrowIn(r, i, cardIndex, At(r.players[i].hand, cardIndex))
  ELSE Rejected(r, "noBranch")

\* socket.on('playCard'), sent by the player socketId with data.cardIndex
playCard(r, socketId, cardIndex) ==
  IF r.gameState # "playing" THEN Rejected(r, "notPlaying")
  ELSE IF FindIndex(r.players, socketId) = 0 THEN Rejected(r, "cardIndex")
  ELSE IF cardIndex >= Len(r.players[FindIndex(r.players, socketId)].hand)
  THEN Rejected(r, "cardIndex")
  ELSE playCardBranch(r, socketId, FindIndex(r.players, socketId), cardIndex)

\* the loop of deflectAttack that looks for an undefended attack of the rank
\* of the deflecting card: "found", "none", or "raised" when it reads the rank
\* of an undefined card before finding one
RECURSIVE CanDeflectFrom(_, _, _)
CanDeflectFrom(bf, k, deflectCard) ==
  IF k > Len(bf) THEN "none"
  ELSE IF bf[k].defense # Null THEN CanDeflectFrom(bf, k + 1, deflectCard)
  ELSE IF bf[k].attack = Undefined \/ deflectCard = Undefined THEN "raised"
  ELSE IF bf[k].attack.rank = deflectCard.rank THEN "found"
  ELSE CanDeflectFrom(bf, k + 1, deflectCard)

\* deflectAttack, "Add deflect card to battlefield as new attack"
PlayDeflectCard(r, i, cardIndex) ==
  [r EXCEPT !.battlefield = Push(@, [attack |-> At(r.players[i].hand, cardIndex),
                                     defense |-> Null,
                                     attackerId |-> r.players[i].id]),
            !.players[i].hand = Splice(@, cardIndex)]

\* PassDefence without the recomputation of additionalAttackers
PassDefenceStale(r, nextDefender) ==
  SetPhase([r EXCEPT !.currentDefenderId = r.players[nextDefender].id], "defending")

\* deflectAttack, "Update defender to next player" and who can attack
PassDefence(r, nextDefender) ==
  SetPhase(SetAdditionalAttackers(
             [r EXCEPT !.currentDefenderId = r.players[nextDefender].id]),
           "defending")

\* deflectAttack once the role and phase checks passed: i is the index of the
\* deflecting defender, nextDefender that of the next active player (0: null)
deflectChecked(r, i, cardIndex, nextDefender, canDeflect) ==
  IF nextDefender = 0 THEN Rejected(r, "noNextDefender")
  ELSE IF cardIndex >= Len(r.players[i].hand) THEN Rejected(r, "cardIndex")
  ELSE IF canDeflect = "raised" THEN Raised(r, "deflectRank")
  ELSE IF canDeflect = "none" THEN Rejected(r, "deflectRank")
  ELSE IF Len(r.battlefield) + 1
            > Min(MAX_BATTLEFIELD_SIZE, Len(r.players[nextDefender].hand))
  THEN Rejected(r, "deflectLimit")
  ELSE Accepted(checkForWinner(PassDefence(PlayDeflectCard(r, i, cardIndex), nextDefender),
                               i),
                "deflect")

\* deflectAttack without the test for a defended pair
deflectAttackLate(r, socketId, cardIndex) ==
  IF r.gameState # "playing" THEN Rejected(r, "notPlaying")
  ELSE IF r.currentDefenderId # socketId THEN Rejected(r, "notDefender")
  ELSE IF r.gamePhase # "defending" THEN Rejected(r, "notDefending")
  ELSE deflectChecked(r, FindIndex(r.players, socketId), cardIndex,
                      getNextActivePlayer(r, socketId),
                      CanDeflectFrom(r.battlefield, 1,
                                     At(HandOf(r, socketId), cardIndex)))

\* socket.on('deflectAttack')
deflectAttack(r, socketId, cardIndex) ==
  IF r.gameState # "playing" THEN Rejected(r, "notPlaying")
  ELSE IF r.currentDefenderId # socketId THEN Rejected(r, "notDefender")
  ELSE IF r.gamePhase # "defending" THEN Rejected(r, "notDefending")
  ELSE IF \E k \in 1..Len(r.battlefield) : r.battlefield[k].defense # Null
  THEN Rejected(r, "alreadyDefended")
  ELSE deflectChecked(r, FindIndex(r.players, socketId), cardIndex,
                      getNextActivePlayer(r, socketId),
                      CanDeflectFrom(r.battlefield, 1,
                                     At(HandOf(r, socketId), cardIndex)))

\* the ranks takeCards has collected when its loop stops: all of them, or
\* those of the pairs before the first pair whose attack is undefined
RanksBeforeUndefined(bf) ==
  IF HasUndefinedAttack(bf)
  THEN BattlefieldRanks(SubSeq(bf, 1, (CHOOSE k \in 1..Len(bf) :
                                         /\ bf[k].attack = Undefined
                                         /\ \A j \in 1..(k - 1) : bf[j].attack # Undefined) - 1))
  ELSE BattlefieldRanks(bf)

\* takeCards, the limit and the ranks of the throw-in window
SetThrowInLimits(r, socketId) ==
  [r EXCEPT !.maxThrowInTotal = Min(MAX_BATTLEFIELD_SIZE, Len(HandOf(r, socketId))),
            !.validThrowInRanks = RanksBeforeUndefined(r.battlefield)]

\* the throw-in phase entered without a timer
OpenThrowInNoTimer(r) ==
  [r EXCEPT !.gamePhase = "throwIn", !.throwInCards = <<>>]

\* takeCards, "Enter throw-in phase" and "Set timer"
OpenThrowIn(r) ==
  [r EXCEPT !.gamePhase = "throwIn", !.throwInCards = <<>>, !.throwInTimer = "pending"]

\* takeCards with the throw-in limits set before the sender is checked
takeCardsEager(r, socketId) ==
  IF r.gameState # "playing" THEN Rejected(r, "notPlaying")
  ELSE IF FindIndex(r.players, socketId) = 0 THEN Rejected(r, "notDefender")
  ELSE IF r.currentDefenderId # socketId
  THEN Rejected(SetThrowInLimits(r, socketId), "notDefender")
  ELSE IF HasUndefinedAttack(r.battlefield)
  THEN Raised(SetThrowInLimits(r, socketId), "takeRanks")
  ELSE Accepted(OpenThrowIn(SetThrowInLimits(r, socketId)), "take")

\* socket.on('takeCards')
takeCards(r, socketId) ==
  IF r.gameState # "playing" THEN Rejected(r, "notPlaying")
  ELSE IF r.currentDefenderId # socketId THEN Rejected(r, "notDefender")
  ELSE IF HasUndefinedAttack(r.battlefield)
  THEN Raised(SetThrowInLimits(r, socketId), "takeRanks")
  ELSE Accepted(OpenThrowIn(SetThrowInLimits(r, socketId)), "take")

\* finishThrowIn without clearTimeout: the timer of the window stays set
finishThrowInKeepTimer(r, socketId) ==
  IF r.gameState # "playing" THEN Rejected(r, "notPlaying")
  ELSE IF r.initialAttackerId # socketId \/ r.gamePhase # "throwIn"
  THEN Rejected(r, "notAttackerOrNotThrowIn")
  ELSE Accepted(completeTakeCards(r), "finishThrowIn")

\* socket.on('finishThrowIn')
finishThrowIn(r, socketId) ==
  IF r.gameState # "playing" THEN Rejected(r, "notPlaying")
  ELSE IF r.initialAttackerId # socketId \/ r.gamePhase # "throwIn"
  THEN Rejected(r, "notAttackerOrNotThrowIn")
  ELSE Accepted(completeTakeCards([r EXCEPT !.throwInTimer = "none"]), "finishThrowIn")

\* socket.on('endAttack')
endAttack(r, socketId) ==
  IF r.gameState # "playing" THEN Rejected(r, "notPlaying")
  ELSE IF r.initialAttackerId # socketId THEN Rejected(r, "notAttacker")
  ELSE IF \/ r.gamePhase = "attacking"
          \/ (Len(r.battlefield) > 0 /\ AllDefended(r.battlefield))
  THEN Accepted(completeSuccessfulDefense(r), "endAttack")
  ELSE Rejected(r, "cannotEnd")

\* the callback of the throw-in timer set by takeCards
throwInTimeout(r) == completeTakeCards(r)

\* socket.on('joinRoom') for a socket that is in no room yet
joinRoom(r, socketId) ==
  IF Len(r.players) >= r.maxPlayers THEN Rejected(r, "roomFull")
  ELSE IF r.gameState # "waiting" THEN Rejected(r, "inProgress")
  ELSE Accepted([r EXCEPT !.players = Push(@, NewPlayer(socketId, Len(r.players)))], "join")

\* playerReady: the game starts when every player is ready
StartIfAllReady(r, seed, pick) ==
  IF Len(r.players) >= MIN_PLAYERS /\ \A k \in 1..Len(r.players) : r.players[k].ready
  THEN (IF startGame(r, seed, pick).result = "raised"
        THEN Raised(startGame(r, seed, pick).room, "startGame")
        ELSE Accepted(startGame(r, seed, pick).room, "startGame"))
  ELSE Accepted(r, "ready")

\* socket.on('playerReady')
playerReady(r, socketId, seed, pick) ==
  IF FindIndex(r.players, socketId) = 0 THEN Rejected(r, "noPlayer")
  ELSE StartIfAllReady([r EXCEPT !.players[FindIndex(r.players, socketId)].ready = TRUE],
                       seed, pick)

\* cleanupRoom: a room without players, or whose players are all
\* disconnected, is deleted with its timers cleared; a deleted room is
\* shown as a room in gameState "deleted" without players
cleanupRoom(r) ==
  IF Len(r.players) = 0 \/ \A k \in 1..Len(r.players) : ~r.players[k].connected
  THEN [r EXCEPT !.players = <<>>, !.gameState = "deleted", !.throwInTimer = "none"]
  ELSE r

\* handlePlayerLeave in a room that is waiting: the player is removed and
\* the positions are renumbered
RemovePlayer(r, i) ==
  [r EXCEPT !.players =
     [k \in 1..(Len(r.players) - 1) |->
        [Splice(r.players, i - 1)[k] EXCEPT !.position = k - 1]]]

\* handlePlayerLeave that removes the player whatever the state of the game
handlePlayerLeaveRemoving(r, playerId) ==
  IF FindIndex(r.players, playerId) = 0 THEN r
  ELSE IF Len(RemovePlayer(r, FindIndex(r.players, playerId)).players) = 0
       THEN cleanupRoom(RemovePlayer(r, FindIndex(r.players, playerId)))
       ELSE RemovePlayer(r, FindIndex(r.players, playerId))

\* handlePlayerLeave
handlePlayerLeave(r, playerId) ==
  IF FindIndex(r.players, playerId) = 0 THEN r
  ELSE IF r.gameState = "waiting"
  THEN (IF Len(RemovePlayer(r, FindIndex(r.players, playerId)).players) = 0
        THEN cleanupRoom(RemovePlayer(r, FindIndex(r.players, playerId)))
        ELSE RemovePlayer(r, FindIndex(r.players, playerId)))
  ELSE [r EXCEPT !.players[FindIndex(r.players, playerId)].connected = FALSE]

(***************************************************************************)
(* The intents of the clients and the actions that apply the handlers.     *)
(***************************************************************************)
\* the game is explored up to config.maxSettlements settled rounds
InPlay == ~crashed /\ settlements < config.maxSettlements

Seeds == 0..(NumShuffles - 1)

SocketIds == 1..config.seats

PlayerIds == {room.players[i].id : i \in 1..Len(room.players)}

\* the card indexes a client may send: every position of the hand, one below
\* and one above
CardIndexes(id) == (-1)..Len(HandOf(room, id))

IndexClass(id, cardIndex) ==
  IF cardIndex < 0 THEN "negative"
  ELSE IF cardIndex >= Len(HandOf(room, id)) THEN "beyond"
  ELSE "inRange"

\* the record of an intent that was not rejected; a rejected intent leaves
\* the record of the last one that was not
Intent(op, id, class, out) ==
  IF out.result = "rejected" THEN last
  ELSE [op |-> op, player |-> id, index |-> class,
        result |-> out.result, reason |-> out.reason]

TableCards(r) == Range(BattlefieldCards(r.battlefield)) \cup Range(ThrowInPile(r.throwInCards))

\* no pair of cards is put to canDefend while a game is played
NoProbe == [defenseCard |-> Null, attackCard |-> Null, result |-> "none"]

\* no throw-in window is open
NoWindow == [defender |-> NoPlayer, hand |-> <<>>, thrown |-> <<>>]

\* no client has voted
NoVotes == [id \in SocketIds |-> "none"]

Lobby ==
  /\ room = createRoom(1, config.seats)
  /\ window = NoWindow
  /\ votes = NoVotes
  /\ crashed = FALSE
  /\ last = [op |-> "createRoom", player |-> 1, index |-> "none",
             result |-> "accepted", reason |-> "create"]
  /\ discarded = {}
  /\ settlements = 0

Init ==
  /\ config = Narrow
  /\ Lobby
  /\ probe = NoProbe

InitWide ==
  /\ config = Wide
  /\ Lobby
  /\ probe = NoProbe

InitShort ==
  /\ config = Short
  /\ Lobby
  /\ probe = NoProbe

InitLeave ==
  /\ config = Leaving
  /\ Lobby
  /\ probe = NoProbe

InitFull ==
  /\ config = Full
  /\ Lobby
  /\ probe = NoProbe

\* the socket that connects next: the lowest id that is in no room, one
\* beyond the last when every id is taken
FreshSocket ==
  IF SocketIds \subseteq PlayerIds THEN config.seats + 1
  ELSE CHOOSE id \in SocketIds \ PlayerIds : \A other \in SocketIds \ PlayerIds : id <= other

JoinRoom ==
  /\ ~crashed
  /\ LET id == FreshSocket
         out == joinRoom(room, id)
     IN  /\ id \in SocketIds
         /\ room' = out.room
         /\ last' = Intent("joinRoom", id, "none", out)
  /\ UNCHANGED <<crashed, discarded, settlements, config, probe, window, votes>>

\* clients send playerReady from the lobby
PlayerReady(id, seed, pick) ==
  /\ ~crashed
  /\ room.gameState = "waiting"
  /\ pick \in 1..Len(room.players)
  /\ LET out == playerReady(room, id, seed, pick)
     IN  /\ room' = out.room
         /\ crashed' = (out.result = "raised")
         /\ last' = Intent("playerReady", id, "none", out)
         /\ discarded' = IF out.reason = "startGame" THEN {} ELSE discarded
         /\ window' = IF out.reason = "startGame" THEN NoWindow ELSE window
  /\ UNCHANGED <<settlements, config, probe, votes>>

PlayCard(id, cardIndex) ==
  /\ InPlay
  /\ LET out == playCard(room, id, cardIndex)
     IN  /\ room' = out.room
         /\ crashed' = (out.result = "raised")
         /\ last' = Intent("playCard", id, IndexClass(id, cardIndex), out)
         /\ window' = IF out.reason = "throwIn"
                       THEN [window EXCEPT !.thrown = Push(@, At(HandOf(room, id), cardIndex))]
                       ELSE window
  /\ UNCHANGED <<discarded, settlements, config, probe, votes>>

DeflectAttack(id, cardIndex) ==
  /\ InPlay
  /\ LET out == deflectAttack(room, id, cardIndex)
     IN  /\ room' = out.room
         /\ crashed' = (out.result = "raised")
         /\ last' = Intent("deflectAttack", id, IndexClass(id, cardIndex), out)
  /\ UNCHANGED <<discarded, settlements, config, probe, window, votes>>

TakeCards(id) ==
  /\ InPlay
  /\ LET out == takeCards(room, id)
     IN  /\ room' = out.room
         /\ crashed' = (out.result = "raised")
         /\ last' = Intent("takeCards", id, "none", out)
         /\ window' = IF out.result = "accepted"
                       THEN [defender |-> id, hand |-> HandOf(room, id), thrown |-> <<>>]
                       ELSE window
  /\ UNCHANGED <<discarded, settlements, config, probe, votes>>

FinishThrowIn(id) ==
  /\ InPlay
  /\ LET out == finishThrowIn(room, id)
     IN  /\ room' = out.room
         /\ last' = Intent("finishThrowIn", id, "none", out)
         /\ settlements' = IF out.result = "accepted" THEN settlements + 1 ELSE settlements
         /\ window' = IF out.result = "accepted" THEN NoWindow ELSE window
  /\ UNCHANGED <<crashed, discarded, config, probe, votes>>

EndAttack(id) ==
  /\ InPlay
  /\ LET out == endAttack(room, id)
     IN  /\ room' = out.room
         /\ last' = Intent("endAttack", id, "none", out)
         /\ discarded' = IF out.result = "accepted"
                         THEN discarded \cup TableCards(room)
                         ELSE discarded
         /\ settlements' = IF out.result = "accepted" THEN settlements + 1 ELSE settlements
         /\ window' = IF out.result = "accepted" THEN NoWindow ELSE window
  /\ UNCHANGED <<crashed, config, probe, votes>>

ThrowInTimeout ==
  /\ InPlay
  /\ room.throwInTimer = "pending"
  /\ room' = throwInTimeout([room EXCEPT !.throwInTimer = "none"])
  /\ last' = [op |-> "throwInTimeout", player |-> NoPlayer, index |-> "none",
              result |-> "accepted", reason |-> "timeout"]
  /\ settlements' = settlements + 1
  /\ window' = NoWindow
  /\ UNCHANGED <<crashed, discarded, config, probe, votes>>

\* a client of a game that has ended sends its rematch vote; the server
\* registers no listener for it, so the room is left as it is
Vote(id, answer) ==
  /\ ~crashed
  /\ room.gameState = "finished"
  /\ votes[id] = "none"
  /\ votes' = [votes EXCEPT ![id] = answer]
  /\ UNCHANGED <<room, crashed, last, discarded, settlements, config, probe, window>>

Next ==
  \/ JoinRoom
  \/ \E id \in PlayerIds, seed \in Seeds, pick \in SocketIds : PlayerReady(id, seed, pick)
  \/ \E id \in PlayerIds : \E cardIndex \in CardIndexes(id) : PlayCard(id, cardIndex)
  \/ \E id \in PlayerIds : \E cardIndex \in CardIndexes(id) : DeflectAttack(id, cardIndex)
  \/ \E id \in PlayerIds : TakeCards(id)
  \/ \E id \in PlayerIds : FinishThrowIn(id)
  \/ \E id \in PlayerIds : EndAttack(id)
  \/ ThrowInTimeout

\* the narrow configuration, played to the end of the game
Spec == Init /\ [][Next]_vars

\* the short configuration played for one settled round, with a timer that
\* fires: setTimeout runs its callback once the delay has passed unless the
\* timer is cleared
SpecLive == InitLeave /\ [][Next]_vars /\ WF_vars(ThrowInTimeout)

\* the wide configuration
SpecWide == InitWide /\ [][Next]_vars

\* the short configuration
SpecShort == InitShort /\ [][Next]_vars

\* the configuration of the source, from the creation of the room to the
\* start of the game
NextLobby ==
  \/ JoinRoom
  \/ \E id \in PlayerIds, seed \in Seeds, pick \in SocketIds : PlayerReady(id, seed, pick)

SpecLobby == InitFull /\ [][NextLobby]_vars

\* socket.on('disconnect') of a socket that is in the room
Disconnect(id) ==
  /\ ~crashed
  /\ room.players[FindIndex(room.players, id)].connected
  /\ room' = handlePlayerLeave(room, id)
  /\ last' = [op |-> "disconnect", player |-> id, index |-> "none",
              result |-> "accepted",
              reason |-> IF room.gameState = "waiting" THEN "left" ELSE "disconnected"]
  /\ UNCHANGED <<crashed, discarded, settlements, config, probe, window, votes>>

\* the sockets of the room that are connected: only they send intents
ConnectedIds == {id \in PlayerIds : room.players[FindIndex(room.players, id)].connected}

\* the configuration with clients that disconnect
NextLeave ==
  \/ JoinRoom
  \/ \E id \in ConnectedIds, seed \in Seeds, pick \in SocketIds : PlayerReady(id, seed, pick)
  \/ \E id \in ConnectedIds : \E cardIndex \in CardIndexes(id) : PlayCard(id, cardIndex)
  \/ \E id \in ConnectedIds : \E cardIndex \in CardIndexes(id) : DeflectAttack(id, cardIndex)
  \/ \E id \in ConnectedIds : TakeCards(id)
  \/ \E id \in ConnectedIds : FinishThrowIn(id)
  \/ \E id \in ConnectedIds : EndAttack(id)
  \/ ThrowInTimeout
  \/ \E id \in ConnectedIds : Disconnect(id)

SpecLeave == InitLeave /\ [][NextLeave]_vars

\* the short configuration with the rematch votes of the clients
NextVote ==
  \/ Next
  \/ \E id \in PlayerIds, answer \in {"yes", "no"} : Vote(id, answer)

SpecVote == InitShort /\ [][NextVote]_vars

(***************************************************************************)
(* canDefend on its own: every pair of cards over the four suits, the nine *)
(* values and both trump marks is put to it.                               *)
(***************************************************************************)
AllCards ==
  {[suit |-> s, rank |-> rk, value |-> rankValues[rk], isTrump |-> t] :
     s \in {"S", "H", "D", "C"}, rk \in DOMAIN rankValues, t \in BOOLEAN}

InitCanDefend ==
  /\ config = Narrow
  /\ Lobby
  /\ probe \in {[defenseCard |-> d, attackCard |-> a, result |-> "none"] :
                  d \in AllCards, a \in AllCards}

ApplyCanDefend ==
  /\ probe.result = "none"
  /\ probe' = [probe EXCEPT !.result =
                 IF canDefend(probe.defenseCard, probe.attackCard) THEN "true" ELSE "false"]
  /\ UNCHANGED <<room, crashed, last, discarded, settlements, config, window, votes>>

SpecCanDefend == InitCanDefend /\ [][ApplyCanDefend]_vars

(***************************************************************************)
(* Properties.                                                             *)
(***************************************************************************)
Started == room.gameState \in {"playing", "finished"}

\* a card as the players know it: its suit and its rank
Face(c) == <<c.suit, c.rank>>

RECURSIVE AllHands(_)
AllHands(players) ==
  IF players = <<>> THEN <<>> ELSE players[1].hand \o AllHands(Tail(players))

\* the cards of the deck, the hands, the battlefield and the throw-in pile
CardsHeld(r) ==
  r.deck \o AllHands(r.players) \o BattlefieldCards(r.battlefield)
    \o ThrowInPile(r.throwInCards)

\* the number of places a card is in
Copies(face) ==
  Cardinality({k \in 1..Len(CardsHeld(room)) : Face(CardsHeld(room)[k]) = face})
    + Cardinality({c \in discarded : Face(c) = face})

\* C1: card conservation.  In every state of a started game in which no
\* handler has raised, each card built by createDeck is in exactly one place:
\* the deck, one hand, the battlefield, the throw-in pile or the cards
\* discarded by a successful-defense settlement.
CardConservation ==
  (Started /\ ~crashed) => \A c \in Range(OrderedDeck) : Copies(Face(c)) = 1

\* the indexes that are positions of the hand of the player
ValidIndexes(id) == 0..(Len(HandOf(room, id)) - 1)

\* the room with every card in the hands of the players other than the
\* viewer replaced by the ace of the given suit
WithOtherHands(r, viewer, suit) ==
  [r EXCEPT !.players =
     [i \in 1..Len(r.players) |->
        IF r.players[i].id = viewer THEN r.players[i]
        ELSE [r.players[i] EXCEPT !.hand =
                [k \in 1..Len(r.players[i].hand) |->
                   [suit |-> suit, rank |-> "A", value |-> 14, isTrump |-> FALSE]]]]]

\* C2: sanitized view.  For every viewer the snapshot holds the viewer's own
\* hand in full and, for every other player, the null hand and the size of
\* the hand; and the snapshot is the same for a room that differs only in
\* the contents of the hands of the other players.
SanitizedView ==
  \A v \in PlayerIds :
    /\ \A i \in 1..Len(room.players) :
         /\ getSafeGameState(room, v).players[i].cardCount = Len(room.players[i].hand)
         /\ room.players[i].id = v =>
              getSafeGameState(room, v).players[i].hand = room.players[i].hand
         /\ room.players[i].id # v =>
              getSafeGameState(room, v).players[i].hand = NullHand
    /\ \A s \in Range(suits) :
         getSafeGameState(WithOtherHands(room, v, s), v) = getSafeGameState(room, v)

\* C2, its case: a game is played, the viewer holds cards, and changing the
\* hands of the others changes the room
SanitizedViewWitness ==
  /\ room.gameState = "playing"
  /\ \E v \in PlayerIds :
       /\ Len(HandOf(room, v)) > 0
       /\ \E w \in PlayerIds : w # v /\ Len(HandOf(room, w)) > 1
       /\ \A s \in Range(suits) : WithOtherHands(room, v, s) # room

\* what a handler answered, when it rejected, left the room as it was
RejectedUnchanged(out) == out.result = "rejected" => out.room = room

\* C3: illegal intents do not change the state.  Every playCard,
\* deflectAttack, takeCards, finishThrowIn or endAttack intent that a handler
\* rejects, whoever sends it and with whatever card index, leaves the whole
\* room unchanged.
RejectedIntentsChangeNothing ==
  \A id \in PlayerIds :
    /\ \A cardIndex \in CardIndexes(id) :
         /\ RejectedUnchanged(playCard(room, id, cardIndex))
         /\ RejectedUnchanged(deflectAttack(room, id, cardIndex))
    /\ RejectedUnchanged(takeCards(room, id))
    /\ RejectedUnchanged(finishThrowIn(room, id))
    /\ RejectedUnchanged(endAttack(room, id))

\* C3, its case: a state of the defending phase in which a card that cannot
\* defend, a deflection with a card of another rank, a take by a player who
\* is not the defender, an end of the attack by a player who is not the
\* attacker and a finish outside the throw-in window are all rejected
RejectedIntentsWitness ==
  /\ room.gameState = "playing"
  /\ room.gamePhase = "defending"
  /\ \E id \in PlayerIds : \E cardIndex \in ValidIndexes(id) :
       playCard(room, id, cardIndex).reason = "cannotDefend"
  /\ \E id \in PlayerIds : \E cardIndex \in ValidIndexes(id) :
       deflectAttack(room, id, cardIndex).reason = "deflectRank"
  /\ \E id \in PlayerIds : takeCards(room, id).reason = "notDefender"
  /\ \E id \in PlayerIds : endAttack(room, id).reason = "notAttacker"
  /\ \E id \in PlayerIds : finishThrowIn(room, id).reason = "notAttackerOrNotThrowIn"

\* C4: stale or malformed card index.  A playCard or deflectAttack intent
\* whose card index is not a position of the hand of the sender is rejected
\* without raising and without changing the room, and every pair of the
\* battlefield has a card as its attack.
BadIndexRejected ==
  /\ \A id \in PlayerIds : \A cardIndex \in CardIndexes(id) \ ValidIndexes(id) :
       /\ playCard(room, id, cardIndex).result = "rejected"
       /\ playCard(room, id, cardIndex).room = room
       /\ deflectAttack(room, id, cardIndex).result = "rejected"
       /\ deflectAttack(room, id, cardIndex).room = room
  /\ ~HasUndefinedAttack(room.battlefield)

\* C5: canDefend answers true exactly when the defense card is a trump and
\* the attack card is not, or both have the same suit and the defense card
\* has the greater value.
CanDefendIff ==
  probe.result # "none" =>
    (probe.result = "true"
       <=> \/ (probe.defenseCard.isTrump /\ ~probe.attackCard.isTrump)
           \/ (/\ probe.defenseCard.suit = probe.attackCard.suit
               /\ probe.defenseCard.value > probe.attackCard.value))

\* C5, its case: a trump put against a higher trump does not defend
CanDefendWitness ==
  /\ probe.result = "false"
  /\ probe.defenseCard.isTrump
  /\ probe.attackCard.isTrump
  /\ probe.defenseCard.suit = probe.attackCard.suit
  /\ probe.defenseCard.value < probe.attackCard.value

\* C6: deflection after a defense.  In every state where a pair of the
\* battlefield has a defense, a deflectAttack intent of the current defender
\* is rejected, whatever its card index, and leaves the room unchanged.
DeflectionAfterDefenseRejected ==
  (\E k \in 1..Len(room.battlefield) : room.battlefield[k].defense # Null) =>
    \A cardIndex \in CardIndexes(room.currentDefenderId) :
      /\ deflectAttack(room, room.currentDefenderId, cardIndex).result = "rejected"
      /\ deflectAttack(room, room.currentDefenderId, cardIndex).room = room

\* C6, its case: the defender has defended one pair, another pair is
\* undefended, the defender holds a card of its rank, and the next player has
\* the cards and the table the room for one more attack
DeflectionAfterDefenseWitness ==
  /\ room.gameState = "playing"
  /\ room.gamePhase = "defending"
  /\ \E k \in 1..Len(room.battlefield) : room.battlefield[k].defense # Null
  /\ \E cardIndex \in ValidIndexes(room.currentDefenderId) :
       \E k \in 1..Len(room.battlefield) :
         /\ room.battlefield[k].defense = Null
         /\ room.battlefield[k].attack.rank
              = HandOf(room, room.currentDefenderId)[cardIndex + 1].rank
  /\ getNextActivePlayer(room, room.currentDefenderId) # 0
  /\ Len(room.battlefield) + 1
       <= Min(MAX_BATTLEFIELD_SIZE,
              Len(room.players[getNextActivePlayer(room, room.currentDefenderId)].hand))

\* the players who hold cards in the room after, were eligible in the room
\* before, and are neither the defender after nor the initial attacker before
EligibleAttackerIds(before, after) ==
  {after.players[i].id :
     i \in {j \in 1..Len(after.players) :
              /\ before.players[j].isActive
              /\ ~before.players[j].hasWon
              /\ Len(after.players[j].hand) > 0
              /\ after.players[j].id # after.currentDefenderId
              /\ after.players[j].id # before.initialAttackerId}}

\* what an accepted deflection of the player id with the card at cardIndex
\* has done when it leaves the room after
DeflectionEffect(id, cardIndex, after) ==
  /\ cardIndex \in ValidIndexes(id)
  /\ Len(HandOf(after, id)) = Len(HandOf(room, id)) - 1
  /\ HandOf(after, id) = SubSeq(HandOf(room, id), 1, cardIndex)
                           \o SubSeq(HandOf(room, id), cardIndex + 2, Len(HandOf(room, id)))
  /\ Len(after.battlefield) = Len(room.battlefield) + 1
  /\ after.battlefield = Append(room.battlefield,
                                [attack |-> HandOf(room, id)[cardIndex + 1],
                                 defense |-> Null,
                                 attackerId |-> id])
  /\ getNextActivePlayer(room, id) # 0
  /\ after.currentDefenderId = room.players[getNextActivePlayer(room, id)].id
  /\ after.gamePhase = "defending"
  /\ Range(after.additionalAttackers) = EligibleAttackerIds(room, after)
  /\ Len(after.additionalAttackers) = Cardinality(EligibleAttackerIds(room, after))
  /\ \E k \in 1..Len(room.battlefield) :
       /\ room.battlefield[k].defense = Null
       /\ room.battlefield[k].attack.rank = HandOf(room, id)[cardIndex + 1].rank
  /\ Len(room.battlefield) + 1
       <= Min(MAX_BATTLEFIELD_SIZE, Len(room.players[getNextActivePlayer(room, id)].hand))

\* C7: effect of an accepted deflection.  The card leaves the hand of the
\* deflector and becomes a new undefended pair of the deflector, the next
\* eligible player after the deflector defends, the phase is defending,
\* additionalAttackers holds the eligible players with cards other than the
\* new defender and the initial attacker; and a deflection is accepted only
\* with a card of the rank of an undefended attack, a next eligible player,
\* and a battlefield that then holds at most min(MAX_BATTLEFIELD_SIZE, the
\* hand of the next defender) pairs.
AcceptedDeflectionEffect ==
  \A id \in PlayerIds : \A cardIndex \in CardIndexes(id) :
    deflectAttack(room, id, cardIndex).result = "accepted" =>
      DeflectionEffect(id, cardIndex, deflectAttack(room, id, cardIndex).room)

\* C7, its case: the state an accepted deflection has left, in a game of
\* three players
AcceptedDeflectionWitness ==
  /\ last.op = "deflectAttack"
  /\ last.result = "accepted"
  /\ room.gamePhase = "defending"
  /\ Len(room.players) = 3
  /\ room.currentDefenderId # last.player
  /\ last.player \in Range(room.additionalAttackers)

\* the window of a handler's answer is the one of the room: still open, with
\* the same limit and the same ranks
SameWindow(out) ==
  out.room.gamePhase = "throwIn" =>
    /\ out.room.maxThrowInTotal = room.maxThrowInTotal
    /\ out.room.validThrowInRanks = room.validThrowInRanks

\* C8: throw-in acceptance.  An accepted takeCards sets maxThrowInTotal to
\* min(MAX_BATTLEFIELD_SIZE, the hand of the defender) and validThrowInRanks
\* to the ranks on the battlefield; no other intent changes them while the
\* window is open; and in the window a card of the initial attacker or an
\* additional attacker is accepted exactly when its rank is in
\* validThrowInRanks and battlefield.length + throwInCards.length is below
\* maxThrowInTotal, so that a throw-in never takes the sum above it.
ThrowInAcceptance ==
  /\ \A id \in PlayerIds :
       takeCards(room, id).result = "accepted" =>
         /\ takeCards(room, id).room.gamePhase = "throwIn"
         /\ takeCards(room, id).room.maxThrowInTotal
              = Min(MAX_BATTLEFIELD_SIZE, Len(HandOf(room, id)))
         /\ takeCards(room, id).room.validThrowInRanks = BattlefieldRanks(room.battlefield)
  /\ (room.gameState = "playing" /\ room.gamePhase = "throwIn") =>
       /\ room.validThrowInRanks = BattlefieldRanks(room.battlefield)
       /\ \A id \in PlayerIds :
            /\ SameWindow(finishThrowIn(room, id))
            /\ SameWindow(endAttack(room, id))
            /\ \A cardIndex \in CardIndexes(id) :
                 /\ SameWindow(playCard(room, id, cardIndex))
                 /\ SameWindow(deflectAttack(room, id, cardIndex))
       /\ \A id \in PlayerIds : MayAttack(room, id) =>
            \A cardIndex \in ValidIndexes(id) :
              /\ playCard(room, id, cardIndex).result = "accepted"
                   <=> /\ HandOf(room, id)[cardIndex + 1].rank \in room.validThrowInRanks
                       /\ Len(room.battlefield) + Len(room.throwInCards)
                            < room.maxThrowInTotal
              /\ playCard(room, id, cardIndex).result = "accepted" =>
                   /\ playCard(room, id, cardIndex).reason = "throwIn"
                   /\ Len(playCard(room, id, cardIndex).room.battlefield)
                        + Len(playCard(room, id, cardIndex).room.throwInCards)
                        <= room.maxThrowInTotal

\* C8, its case: a card has been thrown in, the window is still open, and a
\* further card of a valid rank is turned down because the limit is reached
ThrowInAcceptanceWitness ==
  /\ room.gameState = "playing"
  /\ room.gamePhase = "throwIn"
  /\ last.op = "playCard"
  /\ last.reason = "throwIn"
  /\ \E id \in PlayerIds : \E cardIndex \in ValidIndexes(id) :
       playCard(room, id, cardIndex).reason = "throwInLimit"

\* the card of the player at cardIndex may join the battlefield by its rank
AttackRankOk(id, cardIndex) ==
  \/ Len(room.battlefield) = 0
  \/ HandOf(room, id)[cardIndex + 1].rank \in BattlefieldRanks(room.battlefield)

Undefended(bf) == Cardinality({k \in 1..Len(bf) : bf[k].defense = Null})

\* C9: attack phase rule.  A card of the initial attacker or of an additional
\* attacker that meets the rank condition, on a battlefield below the
\* capacity, is accepted as an attack in the phases attacking and defending
\* and in no other phase.
AttackPhaseRule ==
  (room.gameState = "playing" /\ ~HasUndefinedAttack(room.battlefield)) =>
    \A id \in PlayerIds :
      (MayAttack(room, id) /\ id # room.currentDefenderId) =>
        \A cardIndex \in ValidIndexes(id) :
          (AttackRankOk(id, cardIndex) /\ Len(room.battlefield) < MaxAttacks(room)) =>
            (playCard(room, id, cardIndex).reason = "attack"
               <=> room.gamePhase \in {"attacking", "defending"})

\* C10: attack capacity rule.  In the attacking phase a card of an attacker
\* that meets the rank condition is rejected exactly when the number of
\* undefended pairs has reached min(MAX_BATTLEFIELD_SIZE, the hand of the
\* defender); defended pairs do not count.
AttackCapacityRule ==
  (/\ room.gameState = "playing"
   /\ room.gamePhase = "attacking"
   /\ ~HasUndefinedAttack(room.battlefield)) =>
    \A id \in PlayerIds :
      (MayAttack(room, id) /\ id # room.currentDefenderId) =>
        \A cardIndex \in ValidIndexes(id) :
          AttackRankOk(id, cardIndex) =>
            (playCard(room, id, cardIndex).result = "rejected"
               <=> Undefended(room.battlefield) >= MaxAttacks(room))

\* the hand without the card at cardIndex, a position of the hand
Without(hand, cardIndex) ==
  SubSeq(hand, 1, cardIndex) \o SubSeq(hand, cardIndex + 2, Len(hand))

\* the hands of the players other than id, and the deck, are those of the room
OthersAndDeckKept(id, after) ==
  /\ after.deck = room.deck
  /\ \A j \in 1..Len(room.players) :
       room.players[j].id # id => after.players[j].hand = room.players[j].hand

\* C11: attack rank rule and effect.  In the attacking phase, on a
\* battlefield below the capacity, a card of an attacker is accepted exactly
\* when the battlefield is empty or the rank of the card is the rank of an
\* attack or defense card on it; an accepted attack moves exactly that card
\* from the hand to a new pair without defense and sets the phase to
\* defending; a player who may not attack has no attack accepted.
AttackRankRule ==
  (room.gameState = "playing" /\ ~HasUndefinedAttack(room.battlefield)) =>
    \A id \in PlayerIds : \A cardIndex \in ValidIndexes(id) :
      /\ (/\ MayAttack(room, id)
          /\ room.gamePhase = "attacking"
          /\ Len(room.battlefield) < MaxAttacks(room)) =>
           (playCard(room, id, cardIndex).result = "accepted"
              <=> AttackRankOk(id, cardIndex))
      /\ playCard(room, id, cardIndex).reason = "attack" =>
           /\ MayAttack(room, id)
           /\ AttackRankOk(id, cardIndex)
           /\ playCard(room, id, cardIndex).room.battlefield
                = Append(room.battlefield,
                         [attack |-> HandOf(room, id)[cardIndex + 1],
                          defense |-> Null,
                          attackerId |-> id])
           /\ HandOf(playCard(room, id, cardIndex).room, id)
                = Without(HandOf(room, id), cardIndex)
           /\ OthersAndDeckKept(id, playCard(room, id, cardIndex).room)
           /\ playCard(room, id, cardIndex).room.gamePhase = "defending"

\* C11, its case: after a defended pair a second attack, of the rank of a
\* card on the battlefield, has been accepted
AttackRankWitness ==
  /\ last.reason = "attack"
  /\ Len(room.battlefield) = 2
  /\ room.battlefield[1].defense # Null
  /\ room.battlefield[2].defense = Null
  /\ room.battlefield[2].attack.rank
       \in {room.battlefield[1].attack.rank, room.battlefield[1].defense.rank}
  /\ room.gamePhase = "defending"

\* the relation that canDefend is to decide: a trump against a card that is
\* none, or a higher card of the same suit
Beats(d, a) ==
  \/ (d.isTrump /\ ~a.isTrump)
  \/ (d.suit = a.suit /\ d.value > a.value)

\* C12: defended-pair invariant.  Every pair of the battlefield that has a
\* defense has one that beats its attack as canDefend decides; a defense is
\* accepted only from the current defender in the defending phase; and after
\* it the phase is attacking when every pair is defended and defending
\* otherwise.
DefendedPairs ==
  /\ \A k \in 1..Len(room.battlefield) :
       room.battlefield[k].defense # Null =>
         Beats(room.battlefield[k].defense, room.battlefield[k].attack)
  /\ \A id \in PlayerIds : \A cardIndex \in CardIndexes(id) :
       playCard(room, id, cardIndex).reason = "defend" =>
         /\ id = room.currentDefenderId
         /\ room.gamePhase = "defending"
         /\ playCard(room, id, cardIndex).room.gamePhase
              = IF AllDefended(playCard(room, id, cardIndex).room.battlefield)
                THEN "attacking" ELSE "defending"

\* C12, its case: a defense has been accepted while another pair is still
\* undefended, and the phase is still defending
DefendedPairsWitness ==
  /\ last.reason = "defend"
  /\ room.gamePhase = "defending"
  /\ \E k \in 1..Len(room.battlefield) : room.battlefield[k].defense # Null
  /\ \E k \in 1..Len(room.battlefield) : room.battlefield[k].defense = Null

\* a throw-in window is open: takeCards was accepted and no settlement
\* has come since
WindowOpen == ~crashed /\ room.gameState = "playing" /\ window.defender # NoPlayer

\* the cards of a window at its settlement: the hand of the defender at
\* take time, the battlefield, and the cards accepted into the pile since
WindowCards ==
  window.hand \o BattlefieldCards(room.battlefield) \o window.thrown

\* C13: when the throw-in window opened by takeCards is settled, the hand
\* of the defender who took holds its hand at take time, the cards of the
\* battlefield and every card accepted into the throw-in pile during the
\* window, no card more and no card less (the order of the hand is left
\* open), and the battlefield and the pile are empty afterwards.
TakeSettlementHandsOver ==
  WindowOpen =>
    /\ Range(HandOf(completeTakeCards(room), window.defender)) = Range(WindowCards)
    /\ Len(HandOf(completeTakeCards(room), window.defender)) = Len(WindowCards)
    /\ completeTakeCards(room).battlefield = <<>>
    /\ completeTakeCards(room).throwInCards = <<>>

\* the cards a hand is short of, as far as the deck goes
Need(hand, deck) == Min(Max(0, INITIAL_HAND_SIZE - Len(hand)), Len(deck))

\* the n cards at the consumption end of the deck, in the order drawn
TopOfDeck(deck, n) == [k \in 1..n |-> deck[Len(deck) + 1 - k]]

\* the hands (a function of player ids) and the deck after the players
\* of order have refilled one after the other
RECURSIVE RefillInOrder(_, _, _)
RefillInOrder(hands, deck, order) ==
  IF order = <<>> THEN [hands |-> hands, deck |-> deck]
  ELSE RefillInOrder(
         [hands EXCEPT ![Head(order)] = @ \o TopOfDeck(deck, Need(@, deck))],
         SubSeq(deck, 1, Len(deck) - Need(hands[Head(order)], deck)),
         Tail(order))

IdsOf(players) == [k \in 1..Len(players) |-> players[k].id]

HandsById(r) == [id \in Range(IdsOf(r.players)) |-> HandOf(r, id)]

\* a take settlement can run: the timer of takeCards is pending or the
\* initial attacker can send finishThrowIn
TakeSettlementDue ==
  /\ ~crashed
  /\ room.gameState = "playing"
  /\ (room.throwInTimer = "pending" \/ room.gamePhase = "throwIn")

\* the order of the refill in a take settlement: the initial attacker,
\* then the other active players, the defender left out
TakeRefillOrder ==
  <<room.initialAttackerId>>
    \o IdsOf(SelectSeq(room.players,
                       LAMBDA p : /\ p.id # room.initialAttackerId
                                  /\ p.id # room.currentDefenderId
                                  /\ p.isActive /\ ~p.hasWon))

\* the hands once the defender has picked up the table, before the refill
HandsAfterPickUp ==
  [HandsById(room) EXCEPT ![room.currentDefenderId] =
     @ \o BattlefieldCards(room.battlefield) \o ThrowInPile(room.throwInCards)]

EligibleSteps(r, afterId) ==
  {k \in 1..Len(r.players) :
     \E p \in Range(r.players) :
       /\ p.position = (r.players[FindIndex(r.players, afterId)].position + k) % Len(r.players)
       /\ p.isActive
       /\ ~p.hasWon}

PlayerAtStep(r, afterId, k) ==
  CHOOSE p \in Range(r.players) :
    p.position = (r.players[FindIndex(r.players, afterId)].position + k) % Len(r.players)

\* nextEligible(room, afterId), as an id; NoPlayer for null
NextEligibleId(r, afterId) ==
  IF FindIndex(r.players, afterId) = 0 \/ EligibleSteps(r, afterId) = {} THEN NoPlayer
  ELSE PlayerAtStep(r, afterId,
         CHOOSE k \in EligibleSteps(r, afterId) :
           \A m \in EligibleSteps(r, afterId) : k <= m).id

\* additionalAttackers as the rotation recomputes it: the active players
\* with cards who are neither the defender nor the initial attacker
RecomputedAttackers(r) ==
  IdsOf(SelectSeq(r.players,
                  LAMBDA p : /\ p.isActive /\ ~p.hasWon /\ Len(p.hand) > 0
                             /\ p.id # r.currentDefenderId
                             /\ p.id # r.initialAttackerId))

\* the rotation of an accepted endAttack, from the room before to the room
\* after
RolesRotated(before, after) ==
  /\ after.battlefield = <<>>
  /\ after.throwInCards = <<>>
  /\ after.initialAttackerId = before.currentDefenderId
  /\ after.currentDefenderId = NextEligibleId(after, after.initialAttackerId)
  /\ after.additionalAttackers = RecomputedAttackers(after)
  /\ after.gamePhase = "attacking"

\* the defender id goes out with the card at cardIndex
DefenderGoesOut(id, cardIndex) ==
  /\ id = room.currentDefenderId
  /\ playCard(room, id, cardIndex).result = "accepted"
  /\ \E p \in Range(playCard(room, id, cardIndex).room.players) : p.id = id /\ p.hasWon

\* after the defender old has gone out, an accepted endAttack gives the
\* initiative to the next eligible player after old
InitiativePassesOn(r, old) ==
  endAttack(r, r.initialAttackerId).result = "accepted" =>
    endAttack(r, r.initialAttackerId).room.initialAttackerId = NextEligibleId(r, old)

DefenseRefillOrder ==
  <<room.initialAttackerId>>
    \o IdsOf(SelectSeq(room.players,
                       LAMBDA p : /\ p.id = room.currentDefenderId
                                  /\ p.id # room.initialAttackerId
                                  /\ p.isActive /\ ~p.hasWon))
    \o IdsOf(SelectSeq(room.players,
                       LAMBDA p : /\ p.id # room.initialAttackerId
                                  /\ p.id # room.currentDefenderId
                                  /\ p.isActive /\ ~p.hasWon))

\* C16: in a successful-defense settlement the initial attacker refills
\* first, the defender second, and the remaining eligible attackers after
\* them, so a deck too short for everyone serves the defender before any
\* additional attacker.
EndAttackDrawOrder ==
  (~crashed /\ Started) =>
    \A id \in PlayerIds :
      endAttack(room, id).result = "accepted" =>
        /\ HandsById(endAttack(room, id).room)
             = RefillInOrder(HandsById(room), room.deck, DefenseRefillOrder).hands
        /\ endAttack(room, id).room.deck
             = RefillInOrder(HandsById(room), room.deck, DefenseRefillOrder).deck

\* the draw step for the player at index i, from the room before to the
\* room after
RefilledTo(before, after, i) ==
  /\ after.players[i].hand
       = before.players[i].hand
           \o TopOfDeck(before.deck, Need(before.players[i].hand, before.deck))
  /\ after.deck
       = SubSeq(before.deck, 1,
                Len(before.deck) - Need(before.players[i].hand, before.deck))
  /\ Len(after.players[i].hand) <= Max(INITIAL_HAND_SIZE, Len(before.players[i].hand))
  /\ Len(before.players[i].hand) >= INITIAL_HAND_SIZE => after = before
  /\ Len(before.deck) - Len(after.deck)
       = Len(after.players[i].hand) - Len(before.players[i].hand)
  /\ Len(after.players[i].hand) < INITIAL_HAND_SIZE => after.deck = <<>>
  /\ \A j \in 1..Len(before.players) : j # i => after.players[j] = before.players[j]

\* C17: a draw step moves cards one at a time from the consumption end of
\* the deck to the hand until the hand has the full size or the deck is
\* empty; it never makes a hand larger than the full size, never changes
\* a hand that has the full size or more, never takes more cards from the
\* deck than it adds to the hand, and ends with a shorter hand when the
\* deck runs out.
RefillDiscipline ==
  (~crashed /\ Started) =>
    \A i \in 1..Len(room.players) :
      RefilledTo(room, drawCardsForPlayer(room, i), i)

\* the draw steps of a settlement have met all three cases: the deck ran
\* out under a hand that stays short, a hand was filled to the full
\* size, and a hand above the full size was left alone
RefillDisciplineWitness ==
  /\ last.op \in {"finishThrowIn", "throwInTimeout", "endAttack"}
  /\ room.gameState = "playing"
  /\ room.deck = <<>>
  /\ \E p \in Range(room.players) : p.isActive /\ Len(p.hand) \in 1..(INITIAL_HAND_SIZE - 1)
  /\ \E p \in Range(room.players) : Len(p.hand) = INITIAL_HAND_SIZE
  /\ \E p \in Range(room.players) : Len(p.hand) > INITIAL_HAND_SIZE

\* the player is out of the game: marked, deactivated and in the winners list
Eliminated(p) ==
  /\ p.hasWon
  /\ ~p.isActive
  /\ \E k \in 1..Len(room.winners) : room.winners[k].id = p.id

\* C18: after every accepted intent and every settlement, every player
\* whose hand is empty while the deck is empty is marked hasWon,
\* deactivated and in the winners list, and no player is marked hasWon
\* while the deck has cards or the player holds a card.
EliminationExact ==
  (~crashed /\ Started) =>
    \A p \in Range(room.players) :
      /\ (p.hand = <<>> /\ room.deck = <<>>) => Eliminated(p)
      /\ p.hasWon => (p.hand = <<>> /\ room.deck = <<>>)

\* the active players who have not won and hold cards
StillHolding == {p \in Range(room.players) : p.isActive /\ ~p.hasWon /\ p.hand # <<>>}

\* C19: the game does not stay in gameState playing once an intent or a
\* settlement has left the deck empty with at most one active player who
\* has not won holding cards; the end is detected on the event that
\* empties the hand.
GameEndDetected ==
  (~crashed /\ room.gameState = "playing") =>
    ~(room.deck = <<>> /\ Cardinality(StillHolding) <= 1)

\* the active players of r who have not won and hold cards
Holding(r) == {p \in Range(r.players) : p.isActive /\ ~p.hasWon /\ p.hand # <<>>}

IsPrefix(s, t) == Len(s) <= Len(t) /\ SubSeq(t, 1, Len(s)) = s

\* the outcome a settlement reports when it ends the game: the one player
\* left with cards as the durak, or a draw, with the winners list
OutcomeReported(after) ==
  /\ after.deck = <<>>
  /\ Cardinality(Holding(after)) <= 1
  /\ \A p \in Holding(after) :
       gameEndEvent(after) = [event |-> "gameOver",
                              durak |-> [id |-> p.id, name |-> p.name],
                              winners |-> after.winners]
  /\ Holding(after) = {} =>
       gameEndEvent(after) = [event |-> "gameDraw", durak |-> NoDurak,
                              winners |-> after.winners]
  /\ \A k \in 1..Len(after.winners) : after.winners[k].position = k

EndsWithOutcome(after) == after.gameState = "finished" => OutcomeReported(after)

\* C20: when the game ends with exactly one active player who has not won
\* holding cards, that player is reported as the durak and the announced
\* winners are the winners list in the order of elimination; with no
\* such player the outcome is a draw; and the game never ends while the
\* deck has cards or while two or more such players hold cards.
GameEndOutcome ==
  /\ (~crashed /\ room.gameState = "finished") =>
       (room.deck = <<>> /\ Cardinality(Holding(room)) <= 1)
  /\ (~crashed /\ room.gameState = "playing") =>
       /\ TakeSettlementDue => EndsWithOutcome(completeTakeCards(room))
       /\ \A id \in PlayerIds :
            /\ EndsWithOutcome(finishThrowIn(room, id).room)
            /\ EndsWithOutcome(endAttack(room, id).room)
            /\ IsPrefix(room.winners, endAttack(room, id).room.winners)
            /\ IsPrefix(room.winners, finishThrowIn(room, id).room.winners)
            /\ \A cardIndex \in ValidIndexes(id) :
                 /\ IsPrefix(room.winners, playCard(room, id, cardIndex).room.winners)
                 /\ IsPrefix(room.winners, deflectAttack(room, id, cardIndex).room.winners)
                 /\ playCard(room, id, cardIndex).room.gameState = "playing"
                 /\ deflectAttack(room, id, cardIndex).room.gameState = "playing"

\* a settlement has ended a game of three players: two have gone out, in
\* the order of the winners list, and one holds cards and is the durak
GameEndOutcomeWitness ==
  /\ room.gameState = "finished"
  /\ last.op \in {"finishThrowIn", "throwInTimeout", "endAttack"}
  /\ Len(room.players) = 3
  /\ Len(room.winners) = 2
  /\ Cardinality(Holding(room)) = 1
  /\ gameEndEvent(room).event = "gameOver"
  /\ gameEndEvent(room).durak.id \notin {room.winners[1].id, room.winners[2].id}

\* a settlement has ended a game in which no active player who has not
\* won holds a card: the outcome is a draw
GameDrawWitness ==
  /\ room.gameState = "finished"
  /\ last.op \in {"finishThrowIn", "throwInTimeout", "endAttack"}
  /\ Holding(room) = {}
  /\ Len(room.winners) >= 2
  /\ gameEndEvent(room).event = "gameDraw"
  /\ gameEndEvent(room).winners = room.winners

\* the winners list after a handler is the list before, or the list before
\* with one entry for the player id at the next position
WinnersStep(id, after) ==
  \/ after.winners = room.winners
  \/ after.winners
       = Append(room.winners,
                [id |-> id,
                 name |-> room.players[FindIndex(room.players, id)].name,
                 position |-> Len(room.winners) + 1])

\* C21: each elimination appends exactly one entry {id, name, position}
\* with position = previous length of winners + 1, so the positions are
\* 1..k in list order, no player id occurs twice in winners, and the list
\* order is the order in which the players were eliminated.
WinnersList ==
  (~crashed /\ Started) =>
    /\ \A k \in 1..Len(room.winners) : room.winners[k].position = k
    /\ \A j, k \in 1..Len(room.winners) :
         j # k => room.winners[j].id # room.winners[k].id
    /\ room.gameState = "playing" =>
         \A id \in PlayerIds :
           /\ takeCards(room, id).room.winners = room.winners
           /\ finishThrowIn(room, id).room.winners = room.winners
           /\ endAttack(room, id).room.winners = room.winners
           /\ \A cardIndex \in ValidIndexes(id) :
                /\ WinnersStep(id, playCard(room, id, cardIndex).room)
                /\ WinnersStep(id, deflectAttack(room, id, cardIndex).room)

\* the end of the game is detected in the room a settlement leaves: the
\* deck is empty and at most one active player who has not won holds cards
EndDetected(after) == after.deck = <<>> /\ Cardinality(Holding(after)) <= 1

VoteOpened(after) ==
  EndDetected(after) => (after.gameState = "voting" /\ after.gamePhase = "voting")

\* C22: as soon as the end of the game is detected the room enters the
\* rematch vote: gameState becomes voting and gamePhase becomes voting,
\* not finished.
GameEndOpensVote ==
  (~crashed /\ room.gameState = "playing") =>
    /\ TakeSettlementDue => VoteOpened(completeTakeCards(room))
    /\ \A id \in PlayerIds :
         /\ finishThrowIn(room, id).result = "accepted" =>
              VoteOpened(finishThrowIn(room, id).room)
         /\ endAttack(room, id).result = "accepted" =>
              VoteOpened(endAttack(room, id).room)

\* the players who have voted for a rematch
YesVoters == {id \in PlayerIds : votes[id] = "yes"}

AllVoted == \A id \in PlayerIds : votes[id] # "none"

\* the room has been reseeded for a new round with the yes-voters only
Reseeded ==
  /\ room.gameState = "playing"
  /\ PlayerIds = YesVoters
  /\ room.winners = <<>>
  /\ room.battlefield = <<>>
  /\ \A p \in Range(room.players) : ~p.hasWon /\ p.isActive

\* C23: the vote completes when every player has voted (or the deadline
\* fires); with at least MIN_PLAYERS yes-votes the room is reseeded for a
\* new round that keeps only the yes-voters, with positions, hands and
\* roles reset; otherwise gameState becomes finished and the room is
\* scheduled for disposal.
RematchResolution ==
  (~crashed /\ Started /\ AllVoted) =>
    IF Cardinality(YesVoters) >= MIN_PLAYERS
    THEN Reseeded
    ELSE room.gameState = "finished"

\* no timer is set in the room a handler leaves
TimerStaysOff(out) == out.room.throwInTimer = "none"

\* C24: a throw-in window is settled once.  An accepted finishThrowIn
\* cancels the timer of the window together with the settlement, and until
\* the next takeCards no intent sets a timer again, so the timer never
\* applies the settlement a second time: the defender receives the cards
\* once and the attackers refill once.
SettledOncePerWindow ==
  (~crashed /\ room.gameState = "playing") =>
    /\ last.op = "finishThrowIn" => room.throwInTimer = "none"
    /\ \A id \in PlayerIds :
         finishThrowIn(room, id).result = "accepted" =>
           /\ room.throwInTimer = "pending"
           /\ TimerStaysOff(finishThrowIn(room, id))
    /\ room.throwInTimer = "none" =>
         \A id \in PlayerIds :
           /\ TimerStaysOff(finishThrowIn(room, id))
           /\ TimerStaysOff(endAttack(room, id))
           /\ \A cardIndex \in CardIndexes(id) :
                /\ TimerStaysOff(playCard(room, id, cardIndex))
                /\ TimerStaysOff(deflectAttack(room, id, cardIndex))

\* finishThrowIn has settled a window in which a card was thrown in: the
\* defender holds the cards and no timer is left
SettledOnceWitness ==
  /\ last.op = "finishThrowIn"
  /\ room.gameState = "playing"
  /\ room.throwInTimer = "none"
  /\ room.battlefield = <<>>
  /\ Len(HandOf(room, room.currentDefenderId)) >= INITIAL_HAND_SIZE + 2

\* hands, battlefield, roles, phase and gameState are the same in both rooms
SameGame(before, after) ==
  /\ HandsById(after) = HandsById(before)
  /\ after.deck = before.deck
  /\ after.battlefield = before.battlefield
  /\ after.throwInCards = before.throwInCards
  /\ after.initialAttackerId = before.initialAttackerId
  /\ after.currentDefenderId = before.currentDefenderId
  /\ after.additionalAttackers = before.additionalAttackers
  /\ after.gamePhase = before.gamePhase
  /\ after.gameState = before.gameState

\* C25: when the throw-in timer fires although the phase of the room is
\* no longer throwIn (another intent such as endAttack has closed the
\* window, or the game has finished), the firing is a no-op: it changes no
\* hand, battlefield, role, phase or gameState.
StaleTimerNoOp ==
  (/\ ~crashed
   /\ room.throwInTimer = "pending"
   /\ (room.gamePhase # "throwIn" \/ room.gameState # "playing")) =>
    SameGame(room, throwInTimeout(room))

\* the trumps of the starting hands, told by their suit
StartingTrumps(r) ==
  {c \in UNION {Range(r.players[i].hand) : i \in 1..Len(r.players)} :
     c.suit = r.trumpSuit}

\* the initial attacker holds a trump that no trump of the hands is below
HoldsLowestTrump(r) ==
  \E c \in Range(HandOf(r, r.initialAttackerId)) :
    /\ c \in StartingTrumps(r)
    /\ \A d \in StartingTrumps(r) : c.value <= d.value

\* C26: right after startGame the trump card is the card at the end of the
\* deck that is drawn last, trumpSuit is its suit, the initial attacker
\* holds the lowest trump of the starting hands (any player when no hand
\* has a trump), and the defender is the next eligible player after the
\* initial attacker, who is another player.
RoundStartRoles ==
  (~crashed /\ last.reason = "startGame") =>
    /\ Len(room.deck) > 0
    /\ Face(room.trumpCard) = Face(room.deck[1])
    /\ room.trumpSuit = room.deck[1].suit
    /\ room.initialAttackerId \in PlayerIds
    /\ StartingTrumps(room) # {} => HoldsLowestTrump(room)
    /\ room.currentDefenderId = NextEligibleId(room, room.initialAttackerId)
    /\ room.currentDefenderId \in PlayerIds
    /\ room.currentDefenderId # room.initialAttackerId

\* a game has started in which two hands hold a trump and the trump card
\* is not the only card left in the deck
RoundStartWitness ==
  /\ ~crashed
  /\ last.reason = "startGame"
  /\ Len(room.deck) > 1
  /\ \E i, j \in 1..Len(room.players) :
       /\ i # j
       /\ \E c \in Range(room.players[i].hand) : c.suit = room.trumpSuit
       /\ \E c \in Range(room.players[j].hand) : c.suit = room.trumpSuit

\* a game has started in which no hand holds a trump
RoundStartNoTrump ==
  /\ ~crashed
  /\ last.reason = "startGame"
  /\ StartingTrumps(room) = {}

\* the hands of the room all hold n cards
AllHold(r, n) == \A i \in 1..Len(r.players) : Len(r.players[i].hand) = n

\* C27: a game can be started for every supported number of players.  For
\* each n from 2 to 6, when all n players of a waiting room are ready,
\* startGame does not raise, gameState is playing, the phase is attacking,
\* every player holds 6 cards, and the trump card and the trump suit are
\* defined.
StartForEveryCount ==
  (config = Full /\ last.reason = "startGame") =>
    /\ ~crashed
    /\ room.gameState = "playing"
    /\ room.gamePhase = "attacking"
    /\ AllHold(room, DeclaredHandSize)
    /\ room.trumpCard \notin {Null, Undefined}
    /\ room.trumpSuit \in Range(suits)

\* a game of n players has started, for each n from 2 to 5
StartedWith(n) ==
  /\ config = Full
  /\ last.reason = "startGame"
  /\ ~crashed
  /\ Len(room.players) = n
  /\ room.gameState = "playing"
  /\ AllHold(room, DeclaredHandSize)

StartedWithFive == StartedWith(5)

\* the start of a game of six players has raised
StartOfSixRaised ==
  /\ config = Full
  /\ last.reason = "startGame"
  /\ Len(room.players) = MAX_PLAYERS
  /\ crashed

\* C28: the current defender is never allowed to attack.  While the game
\* is played, currentDefenderId is not among additionalAttackers, also after
\* an elimination has handed the defender role to another player.
DefenderNeverAttacks ==
  (~crashed /\ room.gameState = "playing") =>
    room.currentDefenderId \notin Range(room.additionalAttackers)

\* the players who can be handed a role: active and not marked hasWon
EligiblePlayers(r) == {q \in Range(r.players) : q.isActive /\ ~q.hasWon}

HasWon(r, id) == \E q \in Range(r.players) : q.id = id /\ q.hasWon

\* C29: eliminated players hold no role.  While the game is played and an
\* eligible player exists, neither initialAttackerId nor currentDefenderId
\* refers to a player marked hasWon: the role of an eliminated player has
\* been handed to the next eligible player.
EliminatedHoldNoRole ==
  (~crashed /\ room.gameState = "playing" /\ EligiblePlayers(room) # {}) =>
    /\ ~HasWon(room, room.initialAttackerId)
    /\ ~HasWon(room, room.currentDefenderId)

\* the fields of a player other than connected
PlayerButConnected(q) ==
  [id |-> q.id, name |-> q.name, ready |-> q.ready, hand |-> q.hand,
   position |-> q.position, isActive |-> q.isActive, hasWon |-> q.hasWon]

\* the room after the leave differs from the room before in nothing but
\* the connected flag of the player, which is off
OnlyConnectedChanged(before, after, id) ==
  /\ Len(after.players) = Len(before.players)
  /\ \A k \in 1..Len(before.players) :
       /\ PlayerButConnected(after.players[k]) = PlayerButConnected(before.players[k])
       /\ after.players[k].connected =
            (IF before.players[k].id = id THEN FALSE ELSE before.players[k].connected)
  /\ after.initialAttackerId = before.initialAttackerId
  /\ after.currentDefenderId = before.currentDefenderId
  /\ after.additionalAttackers = before.additionalAttackers
  /\ after.battlefield = before.battlefield
  /\ after.throwInCards = before.throwInCards
  /\ after.deck = before.deck
  /\ after.gamePhase = before.gamePhase
  /\ after.gameState = before.gameState
  /\ after.throwInTimer = before.throwInTimer
  /\ after.winners = before.winners

\* C30: a disconnection during a game in progress changes only the
\* connected flag of the player: the player stays in room.players with the
\* same hand, position, isActive and hasWon, and the roles, the
\* battlefield, the deck and the phase are unchanged.
DisconnectKeepsGame ==
  (~crashed /\ room.gameState = "playing") =>
    \A id \in PlayerIds : OnlyConnectedChanged(room, handlePlayerLeave(room, id), id)

\* the defender of a round with cards on the table has disconnected and
\* still holds the role and the hand
DisconnectWitness ==
  /\ last.op = "disconnect"
  /\ room.gameState = "playing"
  /\ last.player = room.currentDefenderId
  /\ ~room.players[FindIndex(room.players, last.player)].connected
  /\ Len(HandOf(room, last.player)) > 0
  /\ Len(room.battlefield) > 0

\* the positions of the battlefield pairs without a defense
UndefendedPairs(bf) == {k \in 1..Len(bf) : bf[k].defense = Null}

\* the defend intent of the defender with the card at cardIndex has put
\* that card on the pair at position target
DefendsPair(r, cardIndex, target) ==
  /\ playCard(r, r.currentDefenderId, cardIndex).reason = "defend"
  /\ Face(playCard(r, r.currentDefenderId, cardIndex).room.battlefield[target].defense)
       = Face(At(HandOf(r, r.currentDefenderId), cardIndex))

\* C31: a defend intent targets the pair the defender chose.  In phase
\* defending, for every undefended pair and every card of the defender
\* that beats the attack of that pair, the defender can have the card
\* placed on exactly that pair, so with two or more undefended pairs any
\* one of them can be defended first.
DefendTargetsChosenPair ==
  (~crashed /\ room.gameState = "playing" /\ room.gamePhase = "defending"
     /\ FindIndex(room.players, room.currentDefenderId) # 0
     /\ ~HasUndefinedAttack(room.battlefield)) =>
    \A target \in UndefendedPairs(room.battlefield) :
      \A cardIndex \in ValidIndexes(room.currentDefenderId) :
        Beats(At(HandOf(room, room.currentDefenderId), cardIndex),
              room.battlefield[target].attack) =>
          DefendsPair(room, cardIndex, target)

\* C32: the initial attacker and the defender are distinct.  While the
\* game is played, initialAttackerId and currentDefenderId refer to two
\* different players, after any sequence of attacks, defenses, deflections,
\* takes, end-attacks and eliminations.
AttackerIsNotDefender ==
  (~crashed /\ room.gameState = "playing") =>
    room.initialAttackerId # room.currentDefenderId

\* the id of the player that getNextActivePlayer returns, NoPlayer for null
NextActiveId(r, afterPlayerId) ==
  IF getNextActivePlayer(r, afterPlayerId) = 0 THEN NoPlayer
  ELSE r.players[getNextActivePlayer(r, afterPlayerId)].id

\* C33: a deflection always moves the defence to another player.
\* getNextActivePlayer(room, p) never returns p itself, and after every
\* accepted deflectAttack the defender is another player than the one who
\* deflected; without another active player who has not won the deflection
\* is rejected.
DeflectionMovesDefence ==
  (~crashed /\ room.gameState = "playing") =>
    \A id \in PlayerIds :
      /\ NextActiveId(room, id) # id
      /\ \A cardIndex \in CardIndexes(id) :
           deflectAttack(room, id, cardIndex).result = "accepted" =>
             /\ deflectAttack(room, id, cardIndex).room.currentDefenderId # id
             /\ \E q \in EligiblePlayers(room) : q.id # id

\* C34: a round is dealt once.  A playerReady intent received while the
\* game is played or finished does not run startGame again: the deck, the
\* hands, the battlefield, the roles, the winners list and the phase are
\* left as they are.
RoundDealtOnce ==
  (~crashed /\ Started) =>
    \A id \in PlayerIds, seed \in Seeds, pick \in 1..Len(room.players) :
      /\ playerReady(room, id, seed, pick).reason # "startGame"
      /\ SameGame(room, playerReady(room, id, seed, pick).room)
      /\ playerReady(room, id, seed, pick).room.winners = room.winners

\* C35: winners stay out of the game.  Once a player is marked hasWon the
\* hand of that player stays empty: no card is dealt to it, no settlement
\* hands it battlefield or throw-in cards, and so no game ends while a
\* player of the winners list holds cards.
WinnersStayOut ==
  (~crashed /\ Started) =>
    \A k \in 1..Len(room.players) :
      (room.players[k].hasWon \/ \E w \in Range(room.winners) : w.id = room.players[k].id) =>
        Len(room.players[k].hand) = 0

\* C36: the phase agrees with the battlefield.  While the game is played,
\* phase attacking implies that every pair of the battlefield is defended
\* (the battlefield may be empty), and phase defending implies that at
\* least one pair is undefended.
PhaseAgreesWithBattlefield ==
  (~crashed /\ room.gameState = "playing") =>
    /\ room.gamePhase = "attacking" => AllDefended(room.battlefield)
    /\ room.gamePhase = "defending" => UndefendedPairs(room.battlefield) # {}

\* the defender has beaten every card on the table: the phase is attacking
\* again with defended pairs on the battlefield
PhaseAgreesWitness ==
  /\ ~crashed
  /\ room.gameState = "playing"
  /\ last.reason = "defend"
  /\ room.gamePhase = "attacking"
  /\ Len(room.battlefield) > 0
  /\ AllDefended(room.battlefield)

\* C37: the size of the table is bounded.  In every state the battlefield
\* holds at most MAX_BATTLEFIELD_SIZE pairs, and the battlefield and the
\* throw-in pile together hold at most MAX_BATTLEFIELD_SIZE entries.
TableSizeBound ==
  ~crashed =>
    /\ Len(room.battlefield) <= MAX_BATTLEFIELD_SIZE
    /\ Len(room.battlefield) + Len(room.throwInCards) <= MAX_BATTLEFIELD_SIZE

\* a card has been thrown in and the table is full
TableSizeWitness ==
  /\ ~crashed
  /\ room.gameState = "playing"
  /\ last.reason = "throwIn"
  /\ Len(room.throwInCards) > 0
  /\ Len(room.battlefield) + Len(room.throwInCards) = MAX_BATTLEFIELD_SIZE

\* C38: the defender can always answer.  While the game is played in phase
\* defending, the undefended pairs are at most as many as the cards in the
\* hand of the current defender.
DefenderCanAnswer ==
  (~crashed /\ room.gameState = "playing" /\ room.gamePhase = "defending") =>
    Cardinality(UndefendedPairs(room.battlefield))
      <= Len(HandOf(room, room.currentDefenderId))

\* a step taken while a throw-in window is open: while the phase stays
\* throwIn the battlefield is kept and the pile only grows; the step that
\* leaves the phase is the take settlement, by finishThrowIn or the timer,
\* after which the defender who asked to take holds the cards of the table
WindowStep ==
  (~crashed /\ room.gameState = "playing" /\ room.gamePhase = "throwIn") =>
    /\ (room'.gamePhase = "throwIn" /\ ~crashed') =>
         /\ room'.battlefield = room.battlefield
         /\ IsPrefix(room.throwInCards, room'.throwInCards)
         /\ room'.currentDefenderId = room.currentDefenderId
    /\ (room'.gamePhase # "throwIn" /\ ~crashed') =>
         /\ last'.op \in {"finishThrowIn", "throwInTimeout"}
         /\ room'.currentDefenderId = room.currentDefenderId
         /\ \A c \in Range(BattlefieldCards(room.battlefield))
                       \cup Range(ThrowInPile(room.throwInCards)) :
              c \in Range(HandOf(room', room.currentDefenderId))

\* C39: an open throw-in window settles as a take for the defender who
\* asked for it.  From the accepted takeCards until the settlement no other
\* intent (endAttack, a second takeCards) ends or restarts the window so
\* that cards of the battlefield or the pile are discarded or dropped or
\* the roles rotate; the next change of the phase is the take settlement in
\* which that defender receives the cards.
WindowSettlesAsTake == [][WindowStep]_vars

\* a throw-in window is open in a room that is served
ThrowInOpen == ~crashed /\ room.gameState = "playing" /\ room.gamePhase = "throwIn"

\* the window is closed, or the room is gone with the server or deleted
ThrowInClosed ==
  room.gamePhase = "attacking" \/ crashed \/ room.gameState = "deleted"

====
